---- MODULE Spec2Model ----
(***************************************************************************)
(* A model of gescript: the lexical scanner (internal/parser/lexer.go),    *)
(* the parse entry points (internal/parser/compiler.go and the package     *)
(* entry point), and the stack machine (internal/engine).                  *)
(*                                                                         *)
(* Go values are modelled as follows.                                      *)
(*   - a byte of the source is written as the character it holds ("a"),    *)
(*     or by name ("NUL", "LF"); Ord gives its value, and the bytes of a   *)
(*     string literal's value are kept as values; the source buffer is a   *)
(*     sequence of bytes, indexed from 0 as in Go (Rd(i) reads source[i]); *)
(*   - an int64 is a tuple of four 16-bit limbs, least significant first,  *)
(*     in two's complement, so that 64-bit wrap-around is kept exactly;    *)
(*   - a types.DataType is a record [type, int, text];                     *)
(*   - a *types.DataType is an address, and mem maps addresses to values;  *)
(*   - a Go run-time panic (index out of range) is the control state       *)
(*     "panic" with the run-time error text.                               *)
(***************************************************************************)
EXTENDS Integers, Sequences, FiniteSets, TLC

VARIABLES
    body,      \* the engine.Function shared by the processes: [Name, Code]
    mem,       \* the heap cells that *types.DataType pointers refer to
    prc,       \* per process: the engine.Process fields [body, pc, stack, sp]
    exec,      \* per process: where Exec is, and what it returned
    lexer,     \* the gesLex fields [source, offset, lineNumber, regexValid, error]
    lval,      \* the gesSymType the scanner fills (its literal field is a heap cell)
    token,     \* what the last Lex call returned, and how many calls there were
    main       \* the caller of Parse / Run: its position and what it was handed

vars == <<body, mem, prc, exec, lexer, lval, token, main>>

\* the state of the front end (scanner, parser and their caller)
front == <<lexer, lval, token, main>>

----------------------------------------------------------------------------
(* Bounds of the model *)

\* longest instruction sequence of a Function drawn by InitExec
MaxCode == 3

----------------------------------------------------------------------------
(* 64-bit integers: four 16-bit limbs, least significant first *)

LimbBase == 65536

Limbs == 1..4

Int64Zero == <<0, 0, 0, 0>>

\* the int64 whose value is the small natural number n (n < 2^31)
Int64Of(n) == <<n % LimbBase, (n \div LimbBase) % LimbBase, 0, 0>>

Int64Max == <<65535, 65535, 65535, 32767>>

Int64Min == <<0, 0, 0, 32768>>

Int64MinusOne == <<65535, 65535, 65535, 65535>>

\* carry into limb i of a + b
RECURSIVE CarryInto(_, _, _)
CarryInto(a, b, i) ==
    IF i = 1 THEN 0
    ELSE (a[i-1] + b[i-1] + CarryInto(a, b, i-1)) \div LimbBase

\* Go's int64 addition: the sum modulo 2^64
Int64Add(a, b) ==
    [i \in Limbs |-> (a[i] + b[i] + CarryInto(a, b, i)) % LimbBase]

----------------------------------------------------------------------------
(* types.DataType values *)

IntegerType(i) == [type |-> "Integer", int |-> i, text |-> <<>>]

NumberType(t) == [type |-> "Number", int |-> Int64Zero, text |-> t]

StringType(t) == [type |-> "String", int |-> Int64Zero, text |-> t]

UndefinedType == [type |-> "Undefined", int |-> Int64Zero, text |-> <<>>]

\* the nil interface value (no value)
NilValue == [type |-> "nil", int |-> Int64Zero, text |-> <<>>]

----------------------------------------------------------------------------
(* Pointers and the heap *)

\* the nil pointer
NilRef == [k |-> "nil", p |-> 0, i |-> 0]

\* the cell holding the literal operand of instruction i of the Function
LitRef(i) == [k |-> "lit", p |-> 0, i |-> i]

\* the cell of the local `val` of AdditionOperation run by process p at pc
ValRef(p, pc) == [k |-> "val", p |-> p, i |-> pc]

\* mem with the cell at address a holding v
Store(m, a, v) == [x \in (DOMAIN m) \cup {a} |-> IF x = a THEN v ELSE m[x]]

----------------------------------------------------------------------------
(* engine.Process: the operand stack *)

StackSize == 16

\* what a stack primitive or an instruction hands back: the process, the heap,
\* the value popped, the error returned, and the run-time panic raised if any
Outcome(p, m, v, e, pn) == [prc |-> p, mem |-> m, val |-> v, err |-> e, panic |-> pn]

\* prc.stack[i] of a Go slice of length Len(stack): in range or a panic
InRange(pr, i) == i >= 0 /\ i < Len(pr.stack)

push(pr, m, val) ==
    IF ~InRange(pr, pr.sp)
    THEN Outcome(pr, m, NilRef, "nil", "index out of range")
    ELSE Outcome([pr EXCEPT !.stack[pr.sp + 1] = val, !.sp = pr.sp + 1],
                 m, NilRef, "nil", "none")

peek(pr, m) ==
    IF ~InRange(pr, pr.sp - 1)
    THEN Outcome(pr, m, NilRef, "nil", "index out of range")
    ELSE Outcome(pr, m, pr.stack[pr.sp], "nil", "none")

pop(pr, m) ==
    LET q == [pr EXCEPT !.sp = pr.sp - 1] IN
    IF ~InRange(q, q.sp)
    THEN Outcome(q, m, NilRef, "nil", "index out of range")
    ELSE Outcome(q, m, q.stack[q.sp + 1], "nil", "none")

----------------------------------------------------------------------------
(* engine.OpCode behaviours *)

\* push the operand; the type assertion on an operand that was never set panics
PushLiteralValue(pr, m, op, p) ==
    IF op.OpData = NilRef
    THEN Outcome(pr, m, NilRef, "nil", "interface conversion")
    ELSE push(pr, m, op.OpData)

\* a faulty addition that drops the carries between the limbs
AddValuesNoCarry(left, right) ==
    IF left.type = "Integer" /\ right.type = "Integer"
    THEN IntegerType([i \in Limbs |-> (left.int[i] + right.int[i]) % LimbBase])
    ELSE UndefinedType

\* the two-level type switch of AdditionOperation
AddValues(left, right) ==
    IF left.type = "Integer" /\ right.type = "Integer"
    THEN IntegerType(Int64Add(left.int, right.int))
    ELSE UndefinedType

\* a faulty addition that keeps its result in the cell of its left operand
AdditionInPlace(pr, m, op, p) ==
    LET l == pop(pr, m) IN
    IF l.panic # "none" \/ l.err # "nil" THEN l
    ELSE LET r == pop(l.prc, l.mem) IN
         IF r.panic # "none" \/ r.err # "nil" THEN r
         ELSE IF l.val = NilRef \/ r.val = NilRef
              THEN Outcome(r.prc, r.mem, NilRef, "nil", "nil pointer dereference")
              ELSE push(r.prc, Store(r.mem, l.val, AddValues(r.mem[l.val], r.mem[r.val])),
                        l.val)

\* pop left, pop right, push the address of a fresh val holding the result
AdditionOperation(pr, m, op, p) ==
    LET l == pop(pr, m) IN
    IF l.panic # "none" \/ l.err # "nil" THEN l
    ELSE LET r == pop(l.prc, l.mem) IN
         IF r.panic # "none" \/ r.err # "nil" THEN r
         ELSE IF l.val = NilRef \/ r.val = NilRef
              THEN Outcome(r.prc, r.mem, NilRef, "nil", "nil pointer dereference")
              ELSE LET res == AddValues(r.mem[l.val], r.mem[r.val])
                       a == ValRef(p, pr.pc)
                   IN push(r.prc, Store(r.mem, a, res), a)

\* an OpCodeFn that reports a failure, as the OpCodeFn type allows
FailingOperation(pr, m, op, p) == Outcome(pr, m, NilRef, "operation failed", "none")

\* op.ExecFn(prc, op)
ExecFn(pr, m, op, p) ==
    CASE op.ExecFn = "PushLiteralValue" -> PushLiteralValue(pr, m, op, p)
      [] op.ExecFn = "AdditionOperation" -> AdditionOperation(pr, m, op, p)
      [] OTHER -> FailingOperation(pr, m, op, p)

OpCode(fn, data) == [LineNumber |-> 0, ExecFn |-> fn, OpData |-> data]

----------------------------------------------------------------------------
(* Function.Exec, one action per step of its loop *)

\* &engine.Process{}
NewProcess == [body |-> "nil", pc |-> 0, stack |-> <<>>, sp |-> 0]

NotStarted == [at |-> "idle", ret |-> NilValue, err |-> "nil", invoked |-> <<>>]

Procs == DOMAIN prc

\* the head of Exec: bind the body, reset pc and sp, allocate the stack
ExecBegin(p) ==
    /\ exec[p].at = "idle"
    /\ prc' = [prc EXCEPT ![p] = [body |-> "fn", pc |-> 0,
                                  stack |-> [i \in 1..StackSize |-> NilRef],
                                  sp |-> 0]]
    /\ exec' = [exec EXCEPT ![p].at = "loop"]
    /\ UNCHANGED <<body, mem, front>>

\* a faulty turn of the loop that goes on after an instruction returned an error
ExecInstrIgnoringErr(p) ==
    /\ exec[p].at = "loop"
    /\ prc[p].pc >= 0 /\ prc[p].pc < Len(body.Code)
    /\ \E r \in {ExecFn(prc[p], mem, body.Code[prc[p].pc + 1], p)} :
          /\ mem' = r.mem
          /\ prc' = [prc EXCEPT ![p] = [r.prc EXCEPT !.pc = r.prc.pc + 1]]
          /\ exec' = [exec EXCEPT ![p].invoked = Append(@, prc[p].pc),
                                  ![p].at = IF r.panic # "none" THEN "panic" ELSE @,
                                  ![p].err = IF r.panic # "none" THEN r.panic ELSE @]
    /\ UNCHANGED <<body, front>>

\* one turn of the loop with pc inside the code: run the instruction
ExecInstr(p) ==
    /\ exec[p].at = "loop"
    /\ prc[p].pc >= 0 /\ prc[p].pc < Len(body.Code)
    /\ \E r \in {ExecFn(prc[p], mem, body.Code[prc[p].pc + 1], p)} :
       \E inv \in {Append(exec[p].invoked, prc[p].pc)} :
          /\ mem' = r.mem
          /\ IF r.panic # "none"
             THEN /\ prc' = [prc EXCEPT ![p] = r.prc]
                  /\ exec' = [exec EXCEPT ![p] = [at |-> "panic", ret |-> NilValue,
                                                  err |-> r.panic, invoked |-> inv]]
             ELSE IF r.err # "nil"
             THEN /\ prc' = [prc EXCEPT ![p] = r.prc]
                  /\ exec' = [exec EXCEPT ![p] = [at |-> "done", ret |-> NilValue,
                                                  err |-> r.err, invoked |-> inv]]
             ELSE /\ prc' = [prc EXCEPT ![p] = [r.prc EXCEPT !.pc = r.prc.pc + 1]]
                  /\ exec' = [exec EXCEPT ![p].invoked = inv]
    /\ UNCHANGED <<body, front>>

\* a faulty return that takes the bottom of the stack for its top
ExecReturnBottom(p) ==
    /\ exec[p].at = "loop"
    /\ ~(prc[p].pc >= 0 /\ prc[p].pc < Len(body.Code))
    /\ exec' = [exec EXCEPT ![p] =
                  IF prc[p].sp > 0
                  THEN [@ EXCEPT !.at = "done", !.ret = mem[prc[p].stack[1]]]
                  ELSE [@ EXCEPT !.at = "done", !.ret = UndefinedType]]
    /\ UNCHANGED <<body, mem, prc, front>>

\* the loop ran out of code: return the stack top, or Undefined
ExecReturn(p) ==
    /\ exec[p].at = "loop"
    /\ ~(prc[p].pc >= 0 /\ prc[p].pc < Len(body.Code))
    /\ exec' = [exec EXCEPT ![p] =
                  IF prc[p].sp > 0
                  THEN IF prc[p].stack[prc[p].sp] = NilRef
                       THEN [@ EXCEPT !.at = "panic", !.err = "nil pointer dereference"]
                       ELSE [@ EXCEPT !.at = "done", !.ret = mem[prc[p].stack[prc[p].sp]]]
                  ELSE [@ EXCEPT !.at = "done", !.ret = UndefinedType]]
    /\ UNCHANGED <<body, mem, prc, front>>

----------------------------------------------------------------------------
(* Bytes: a byte is written as the character it holds, or by its name *)

LowerCase == <<"a", "b", "c", "d", "e", "f", "g", "h", "i", "j", "k", "l", "m",
               "n", "o", "p", "q", "r", "s", "t", "u", "v", "w", "x", "y", "z">>

UpperCase == <<"A", "B", "C", "D", "E", "F", "G", "H", "I", "J", "K", "L", "M",
               "N", "O", "P", "Q", "R", "S", "T", "U", "V", "W", "X", "Y", "Z">>

DigitChars == <<"0", "1", "2", "3", "4", "5", "6", "7", "8", "9">>

\* the printable ASCII characters from ' ' (32) to '/' (47), in order
Punct32 == <<" ", "!", "\"", "#", "$", "%", "&", "'", "(", ")", "*", "+", ",", "-", ".", "/">>

\* from ':' (58) to '@' (64)
Punct58 == <<":", ";", "<", "=", ">", "?", "@">>

\* from '[' (91) to '_' (95)
Punct91 == <<"[", "\\", "]", "^", "_">>

\* from '{' (123) to '~' (126)
Punct123 == <<"{", "|", "}", "~">>

\* the bytes written by name: NUL, \b, \t, \n, \v, \f, \r, and a byte above ASCII
Named == <<"NUL", "BS", "TAB", "LF", "VT", "FF", "CR", "HI">>

NamedCode == <<0, 8, 9, 10, 11, 12, 13, 200>>

Place(seq, c) == CHOOSE i \in 1..Len(seq) : seq[i] = c

\* the code of the i-th element of a run of characters whose first has the code c
Codes(seq, c) == [ch \in {seq[i] : i \in 1..Len(seq)} |-> c - 1 + Place(seq, ch)]

\* the value of each byte
OrdTable ==
    Codes(LowerCase, 97) @@ Codes(UpperCase, 65) @@ Codes(DigitChars, 48)
    @@ Codes(Punct32, 32) @@ Codes(Punct58, 58) @@ Codes(Punct91, 91) @@ Codes(Punct123, 123)
    @@ [ch \in {Named[i] : i \in 1..Len(Named)} |-> NamedCode[Place(Named, ch)]]

Ord(c) == OrdTable[c]

\* the values of a run of bytes: []byte as numbers
Bytes(cs) == [i \in 1..Len(cs) |-> Ord(cs[i])]

\* the first n characters of a run: ch >= seq[1] && ch <= seq[n] is ch \in First(seq, n)
First(seq, n) == {seq[i] : i \in 1..n}

IsLetter(ch) == ch \in First(LowerCase, 26) \/ ch \in First(UpperCase, 26)

IsDigit(ch) == ch \in First(DigitChars, 10)

IsOctal(ch) == ch \in First(DigitChars, 8)

----------------------------------------------------------------------------
(* gesLex and gesSymType *)

\* newLexer: the source with a NUL appended
newLexer(source) ==
    [source |-> Append(source, "NUL"), offset |-> 0, lineNumber |-> 1,
     regexValid |-> FALSE, error |-> "nil"]

\* the zero gesSymType (var lval gesSymType), literal field included
ZeroSym == [parseType |-> "PARSED_UNDEFINED", identifier |-> <<>>,
            literal |-> NilValue, assignOp |-> "0", ctx |-> "nil"]

\* ctx.source[i]: a Go index expression, which panics outside the buffer
InBuf(ctx, i) == i >= 0 /\ i < Len(ctx.source)

OutOfBuffer == "out of buffer"

Rd(ctx, i) == IF InBuf(ctx, i) THEN ctx.source[i + 1] ELSE OutOfBuffer

\* ctx.source[a:b]: a Go slice expression, which panics unless 0 <= a <= b <= len
SliceOk(ctx, a, b) == a >= 0 /\ a <= b /\ b <= Len(ctx.source)

Slice(ctx, a, b) == SubSeq(ctx.source, a + 1, b)

keywords == <<
    [word |-> <<"b", "r", "e", "a", "k">>, token |-> "GTOK_BREAK"],
    [word |-> <<"c", "a", "s", "e">>, token |-> "GTOK_CASE"],
    [word |-> <<"c", "a", "t", "c", "h">>, token |-> "GTOK_CATCH"],
    [word |-> <<"c", "l", "a", "s", "s">>, token |-> "GTOK_CLASS"],
    [word |-> <<"c", "o", "n", "s", "t">>, token |-> "GTOK_CONST"],
    [word |-> <<"c", "o", "n", "t", "i", "n", "u", "e">>, token |-> "GTOK_CONTINUE"],
    [word |-> <<"d", "e", "b", "u", "g", "g", "e", "r">>, token |-> "GTOK_DEBUGGER"],
    [word |-> <<"d", "e", "f", "a", "u", "l", "t">>, token |-> "GTOK_DEFAULT"],
    [word |-> <<"d", "e", "l", "e", "t", "e">>, token |-> "GTOK_DELETE"],
    [word |-> <<"d", "o">>, token |-> "GTOK_DO"],
    [word |-> <<"e", "l", "s", "e">>, token |-> "GTOK_ELSE"],
    [word |-> <<"e", "x", "p", "o", "r", "t">>, token |-> "GTOK_EXPORT"],
    [word |-> <<"e", "x", "t", "e", "n", "d", "s">>, token |-> "GTOK_EXTENDS"],
    [word |-> <<"f", "i", "n", "a", "l", "l", "y">>, token |-> "GTOK_FINALLY"],
    [word |-> <<"f", "o", "r">>, token |-> "GTOK_FOR"],
    [word |-> <<"f", "u", "n", "c", "t", "i", "o", "n">>, token |-> "GTOK_FUNCTION"],
    [word |-> <<"i", "f">>, token |-> "GTOK_IF"],
    [word |-> <<"i", "m", "p", "o", "r", "t">>, token |-> "GTOK_IMPORT"],
    [word |-> <<"i", "n">>, token |-> "GTOK_IN"],
    [word |-> <<"i", "n", "s", "t", "a", "n", "c", "e", "o", "f">>, token |-> "GTOK_INSTANCEOF"],
    [word |-> <<"l", "e", "t">>, token |-> "GTOK_LET"],
    [word |-> <<"n", "e", "w">>, token |-> "GTOK_NEW"],
    [word |-> <<"r", "e", "t", "u", "r", "n">>, token |-> "GTOK_RETURN"],
    [word |-> <<"s", "u", "p", "e", "r">>, token |-> "GTOK_SUPER"],
    [word |-> <<"s", "w", "i", "t", "c", "h">>, token |-> "GTOK_SWITCH"],
    [word |-> <<"t", "h", "i", "s">>, token |-> "GTOK_THIS"],
    [word |-> <<"t", "h", "r", "o", "w">>, token |-> "GTOK_THROW"],
    [word |-> <<"t", "r", "y">>, token |-> "GTOK_TRY"],
    [word |-> <<"t", "y", "p", "e", "o", "f">>, token |-> "GTOK_TYPEOF"],
    [word |-> <<"v", "a", "r">>, token |-> "GTOK_VAR"],
    [word |-> <<"v", "o", "i", "d">>, token |-> "GTOK_VOID"],
    [word |-> <<"w", "h", "i", "l", "e">>, token |-> "GTOK_WHILE"],
    [word |-> <<"w", "i", "t", "h">>, token |-> "GTOK_WITH"],
    [word |-> <<"y", "i", "e", "l", "d">>, token |-> "GTOK_YIELD"],
    [word |-> <<"a", "w", "a", "i", "t">>, token |-> "GTOK_AWAIT"],
    [word |-> <<"e", "n", "u", "m">>, token |-> "GTOK_ENUM"],
    [word |-> <<"i", "m", "p", "l", "e", "m", "e", "n", "t", "s">>, token |-> "GTOK_IMPLEMENTS"],
    [word |-> <<"i", "n", "t", "e", "r", "f", "a", "c", "e">>, token |-> "GTOK_INTERFACE"],
    [word |-> <<"p", "a", "c", "k", "a", "g", "e">>, token |-> "GTOK_PACKAGE"],
    [word |-> <<"p", "r", "i", "v", "a", "t", "e">>, token |-> "GTOK_PRIVATE"],
    [word |-> <<"p", "r", "o", "t", "e", "c", "t", "e", "d">>, token |-> "GTOK_PROTECTED"],
    [word |-> <<"p", "u", "b", "l", "i", "c">>, token |-> "GTOK_PUBLIC"],
    [word |-> <<"n", "u", "l", "l">>, token |-> "GTOK_NULL"],
    [word |-> <<"t", "r", "u", "e">>, token |-> "GTOK_TRUE"],
    [word |-> <<"f", "a", "l", "s", "e">>, token |-> "GTOK_FALSE"] >>

isHex(ch) == IsDigit(ch) \/ ch \in First(LowerCase, 6) \/ ch \in First(UpperCase, 6)

hexToInt(ch) ==
    IF IsDigit(ch) THEN Ord(ch) - 48
    ELSE IF ch \in First(LowerCase, 6) THEN Ord(ch) - 87
    ELSE IF ch \in First(UpperCase, 6) THEN Ord(ch) - 55
    ELSE 0

\* what lex hands back: the token, the scanner, the symbol, and the panic if any
Lexed(tok, ctx, sym) == [token |-> tok, ctx |-> ctx, lval |-> sym, panic |-> "none"]

Panicked(ctx, sym, what) == [token |-> "none", ctx |-> ctx, lval |-> sym, panic |-> what]

Failed(ctx, sym, errstr) == Lexed("GTOK_ERROR", [ctx EXCEPT !.error = errstr], sym)

\* token 0, the end-of-input marker of the yacc driver
EndOfInput == "0"

----------------------------------------------------------------------------
(* strconv.ParseInt(sval, 10, 64) and strconv.ParseFloat(sval, 64) *)

\* c - '0'
DigitValue(ch) == Ord(ch) - 48

\* v * 10 + d on the limbs, with the carry out of the top limb
RECURSIVE MulAddCarry(_, _, _)
MulAddCarry(v, d, i) ==
    IF i = 0 THEN d ELSE (v[i] * 10 + MulAddCarry(v, d, i - 1)) \div LimbBase

\* a faulty v * 10 + d that loses the carries between the limbs
MulAdd10Limbwise(v, d) == [i \in Limbs |-> (v[i] * 10 + (IF i = 1 THEN d ELSE 0)) % LimbBase]

MulAdd10(v, d) == [i \in Limbs |-> (v[i] * 10 + MulAddCarry(v, d, i - 1)) % LimbBase]

\* the digits of s read as an unsigned number; over: it passed 2^64 - 1
RECURSIVE ParseUint(_, _, _)
ParseUint(s, i, acc) ==
    IF i > Len(s) THEN acc
    ELSE ParseUint(s, i + 1,
                   [val |-> MulAdd10(acc.val, DigitValue(s[i])),
                    over |-> acc.over \/ MulAddCarry(acc.val, DigitValue(s[i]), 4) # 0])

\* what ParseInt makes of the unsigned number u
Signed(u) ==
    IF u.over \/ u.val[4] >= 32768
    THEN [val |-> Int64Max, err |-> "value out of range"]
    ELSE [val |-> u.val, err |-> "nil"]

\* the int64 and the error text of ParseInt for base 10, 64 bits, on a text
\* without a sign (the scanner hands over none)
ParseInt(s) ==
    IF s = <<>> \/ \E i \in 1..Len(s) : ~IsDigit(s[i])
    THEN [val |-> Int64Zero, err |-> "invalid syntax"]
    ELSE Signed(ParseUint(s, 1, [val |-> Int64Zero, over |-> FALSE]))

\* the end of the run of digits of s that starts at i
RECURSIVE DigitsEnd(_, _)
DigitsEnd(s, i) == IF i <= Len(s) /\ IsDigit(s[i]) THEN DigitsEnd(s, i + 1) ELSE i

IsSign(ch) == ch = "+" \/ ch = "-"

IsExpMark(ch) == ch = "e" \/ ch = "E"

\* the decimal number grammar of ParseFloat: [sign] digits [. digits] [e [sign] digits],
\* with a digit in the mantissa, a digit in the exponent, and nothing left over;
\* a..b are the integer digits, b+1..c the fraction, e..f the exponent digits
FloatSyntaxOk(s) ==
    \E a \in {IF Len(s) >= 1 /\ IsSign(s[1]) THEN 2 ELSE 1} :
    \E b \in {DigitsEnd(s, a)} :
    \E c \in {IF b <= Len(s) /\ s[b] = "." THEN DigitsEnd(s, b + 1) ELSE b} :
    \E d \in {IF c <= Len(s) /\ IsExpMark(s[c]) THEN c + 1 ELSE c} :
    \E e \in {IF d > c /\ d <= Len(s) /\ IsSign(s[d]) THEN d + 1 ELSE d} :
    \E f \in {IF d > c THEN DigitsEnd(s, e) ELSE c} :
        (b > a \/ c > b + 1) /\ (d > c => f > e) /\ f = Len(s) + 1

\* the largest decimal exponent of a float64 (1.797...e308)
MaxFloatExp10 == 308

\* the leading digits of 2^1024 - 2^970, from which on ParseFloat rounds to infinity
FloatLimitDigits == <<1, 7, 9, 7, 6, 9, 3, 1, 3, 4, 8, 6, 2, 3, 1, 5, 8, 0, 7, 9, 3>>

\* small natural numbers read from digits, capped so that they stay small
RECURSIVE SmallNat(_, _, _, _)
SmallNat(s, i, j, acc) ==
    IF i >= j THEN acc
    ELSE SmallNat(s, i + 1, j, IF acc >= 100000 THEN acc ELSE acc * 10 + DigitValue(s[i]))

\* whether the digit sequence m is at least FloatLimitDigits, as decimal fractions
RECURSIVE AtLeastLimit(_, _)
AtLeastLimit(m, i) ==
    IF i > Len(FloatLimitDigits) THEN TRUE
    ELSE \E d \in {IF i <= Len(m) THEN m[i] ELSE 0} :
         IF d > FloatLimitDigits[i] THEN TRUE
         ELSE IF d < FloatLimitDigits[i] THEN FALSE
         ELSE AtLeastLimit(m, i + 1)

\* the digits of the mantissa of a well-formed s, integer part a..b-1, fraction up to c
Mantissa(s, a, b, c) ==
    [i \in 1..((b - a) + (IF c > b THEN c - b - 1 ELSE 0)) |->
        IF i <= b - a THEN DigitValue(s[a + i - 1]) ELSE DigitValue(s[a + i])]

\* whether a well-formed s is too large for a float64 (ParseFloat's ErrRange):
\* the value is 0.d1d2... * 10^(p+1) with d1 the first non-zero digit
FloatOverflows(s) ==
    \E a \in {IF IsSign(s[1]) THEN 2 ELSE 1} :
    \E b \in {DigitsEnd(s, a)} :
    \E c \in {IF b <= Len(s) /\ s[b] = "." THEN DigitsEnd(s, b + 1) ELSE b} :
    \E mant \in {Mantissa(s, a, b, c)} :
    \E nz \in {{i \in 1..Len(mant) : mant[i] # 0}} :
        /\ nz # {}
        /\ \E first \in {CHOOSE i \in nz : \A j \in nz : i <= j} :
           \E ex \in {IF c <= Len(s)
                      THEN SmallNat(s, IF IsSign(s[c + 1]) THEN c + 2 ELSE c + 1, Len(s) + 1, 0)
                      ELSE 0} :
           \E p \in {(b - a) - first + (IF c <= Len(s) /\ s[c + 1] = "-" THEN 0 - ex ELSE ex)} :
               \/ p > MaxFloatExp10
               \/ p = MaxFloatExp10 /\ AtLeastLimit(SubSeq(mant, first, Len(mant)), 1)

ParseFloat(s) ==
    IF ~FloatSyntaxOk(s) THEN "invalid syntax"
    ELSE IF FloatOverflows(s) THEN "value out of range"
    ELSE "nil"

----------------------------------------------------------------------------
(* gesLex.lex: white space, comments, names and numbers *)

\* the loop of a line comment: up to the line break or the NUL
RECURSIVE LineEnd(_, _)
LineEnd(ctx, o) ==
    IF ~InBuf(ctx, o) \/ Rd(ctx, o) = "NUL" \/ Rd(ctx, o) = "CR" \/ Rd(ctx, o) = "LF"
    THEN o
    ELSE LineEnd(ctx, o + 1)

\* a faulty end of a line comment that counts the CR and the LF of a pair
AfterLineBothCounted(ctx, o1) ==
    IF Rd(ctx, o1) = "CR" /\ Rd(ctx, o1 + 1) = "LF"
    THEN [ctx EXCEPT !.offset = o1 + 2, !.lineNumber = @ + 2]
    ELSE IF Rd(ctx, o1) # "NUL"
    THEN [ctx EXCEPT !.offset = o1 + 1, !.lineNumber = @ + 1]
    ELSE [ctx EXCEPT !.offset = o1]

\* the scanner after a line comment whose text ends at o1
AfterLine(ctx, o1) ==
    LET o2 == IF Rd(ctx, o1) = "CR" /\ Rd(ctx, o1 + 1) = "LF" THEN o1 + 1 ELSE o1
    IN IF Rd(ctx, o2) # "NUL"
       THEN [ctx EXCEPT !.offset = o2 + 1, !.lineNumber = @ + 1]
       ELSE [ctx EXCEPT !.offset = o2]

\* the scanner after a line comment that starts at the offset
LineComment(ctx) == AfterLine(ctx, LineEnd(ctx, ctx.offset + 2))

\* the loop of a block comment: up to the closing mark or the NUL, counting lines
RECURSIVE CommentEnd(_, _, _)
CommentEnd(ctx, o, ln) ==
    IF \/ ~InBuf(ctx, o)
       \/ Rd(ctx, o) = "NUL"
       \/ Rd(ctx, o) = "*" /\ Rd(ctx, o + 1) = "/"
    THEN [offset |-> o, lineNumber |-> ln]
    ELSE LET lf == IF Rd(ctx, o) = "LF" THEN 1 ELSE 0
             cr == IF Rd(ctx, o) = "CR" THEN 1 ELSE 0
             nl == IF Rd(ctx, o) = "CR" /\ Rd(ctx, o + 1) = "LF" THEN 1 ELSE 0
         IN CommentEnd(ctx, o + nl + 1, ln + lf + cr)

IsNameStart(ch) == IsLetter(ch) \/ ch = "$" \/ ch = "_"

IsNameChar(ch) == IsNameStart(ch) \/ IsDigit(ch)

RECURSIVE NameEnd(_, _)
NameEnd(ctx, eso) ==
    IF InBuf(ctx, eso) /\ Rd(ctx, eso) # "NUL" /\ IsNameChar(Rd(ctx, eso))
    THEN NameEnd(ctx, eso + 1)
    ELSE eso

\* the first keyword with the word text, if there is one
Keyword(text) == {i \in 1..Len(keywords) :
                     /\ keywords[i].word = text
                     /\ \A j \in 1..(i - 1) : keywords[j].word # text}

\* the name text that ends at eso: a keyword's token, or an identifier
Word(ctx, sym, eso, text, hit) ==
    LET tok == keywords[CHOOSE i \in hit : TRUE].token IN
    IF hit # {}
    THEN Lexed(tok,
               [ctx EXCEPT !.offset = eso,
                           !.regexValid = IF tok = "GTOK_CASE" THEN TRUE ELSE @],
               sym)
    ELSE Lexed("GTOK_IDENTIFIER", [ctx EXCEPT !.offset = eso],
               [sym EXCEPT !.parseType = "PARSED_IDENTIFIER", !.identifier = text])

NameTo(ctx, sym, eso) ==
    Word(ctx, sym, eso, Slice(ctx, ctx.offset, eso), Keyword(Slice(ctx, ctx.offset, eso)))

\* an identifier or a keyword starts at the offset
Name(ctx, sym) == NameTo(ctx, sym, NameEnd(ctx, ctx.offset))

\* ival << k | d, for a d below 2^k
ShiftIn(ival, k, d) ==
    [i \in Limbs |->
        ((ival[i] * (2 ^ k)) % LimbBase)
        + (IF i = 1 THEN d ELSE ival[i - 1] \div (2 ^ (16 - k)))]

\* the digit loop of a numeric literal: where it stops and the value it built
RECURSIVE Digits(_, _, _, _)
Digits(ctx, radix, eso, ival) ==
    IF ~isHex(Rd(ctx, eso)) THEN [eso |-> eso, ival |-> ival]
    ELSE IF radix = 16
    THEN Digits(ctx, radix, eso + 1, ShiftIn(ival, 4, hexToInt(Rd(ctx, eso))))
    ELSE IF radix = 8
    THEN IF IsOctal(Rd(ctx, eso))
         THEN Digits(ctx, radix, eso + 1, ShiftIn(ival, 3, DigitValue(Rd(ctx, eso))))
         ELSE [eso |-> eso, ival |-> ival]
    ELSE IF IsDigit(Rd(ctx, eso)) THEN Digits(ctx, radix, eso + 1, ival)
         ELSE [eso |-> eso, ival |-> ival]

IsFloatChar(ch) == IsDigit(ch) \/ ch = "." \/ ch = "e" \/ ch = "E" \/ ch = "-"

RECURSIVE FloatEnd(_, _)
FloatEnd(ctx, eso) == IF IsFloatChar(Rd(ctx, eso)) THEN FloatEnd(ctx, eso + 1) ELSE eso

NumberLexed(ctx, sym, eso, value) ==
    Lexed("GTOK_LITERAL", [ctx EXCEPT !.offset = eso],
          [sym EXCEPT !.parseType = "PARSED_LITERAL", !.literal = value])

\* the decimal integer that ParseInt made of the text from the offset to eso
IntegerLiteral(ctx, sym, eso, parsed) ==
    IF parsed.err # "nil"
    THEN Failed(ctx, sym, "Invalid literal integer: " \o parsed.err)
    ELSE NumberLexed(ctx, sym, eso, IntegerType(parsed.val))

\* the float sval from the offset to eso, with what ParseFloat said of it; the
\* Number keeps the text of the float
FloatLiteral(ctx, sym, eso, sval, err) ==
    IF err # "nil"
    THEN Failed(ctx, sym, "Invalid literal float: " \o err)
    ELSE NumberLexed(ctx, sym, eso, NumberType(sval))

\* the text from the offset to eso handed to ParseInt or, for a float, to ParseFloat
Decimal(ctx, sym, eso, float) ==
    IF ~SliceOk(ctx, ctx.offset, eso) THEN Panicked(ctx, sym, "slice bounds out of range")
    ELSE IF float
    THEN FloatLiteral(ctx, sym, eso, Slice(ctx, ctx.offset, eso),
                      ParseFloat(Slice(ctx, ctx.offset, eso)))
    ELSE IntegerLiteral(ctx, sym, eso, ParseInt(Slice(ctx, ctx.offset, eso)))

\* a faulty end of the digit loop that, finding no hex digit after 0x, moves
\* the offset back but leaves eso after the x
AfterDigitsEsoKept(ctx, sym, off1, radix1, run) ==
    LET none == run.eso = off1
        unhex == none /\ radix1 = 16
        off == IF none THEN (IF radix1 = 16 THEN off1 - 2 ELSE off1 - 1) ELSE off1
        float == ~unhex /\ Rd(ctx, run.eso) \in {".", "e", "E"}
    IN IF ~unhex /\ (radix1 = 8 \/ radix1 = 16)
       THEN NumberLexed(ctx, sym, run.eso, IntegerType(run.ival))
       ELSE Decimal([ctx EXCEPT !.offset = off], sym,
                    IF float THEN FloatEnd(ctx, run.eso) ELSE run.eso, float)

\* the literal after the digit loop run, which started at off1 in radix1
AfterDigits(ctx, sym, off1, radix1, run) ==
    LET none == run.eso = off1
        unhex == none /\ radix1 = 16
        \* the rollback when no digit was taken
        off == IF none THEN (IF radix1 = 16 THEN off1 - 2 ELSE off1 - 1) ELSE off1
        eso == IF unhex THEN run.eso - 1 ELSE run.eso
        \* ch is 'x' after the rollback of a 0x
        float == ~unhex /\ Rd(ctx, run.eso) \in {".", "e", "E"}
    IN IF ~unhex /\ (radix1 = 8 \/ radix1 = 16)
       THEN NumberLexed(ctx, sym, eso, IntegerType(run.ival))
       ELSE Decimal([ctx EXCEPT !.offset = off], sym,
                    IF float THEN FloatEnd(ctx, eso) ELSE eso, float)

\* the digit loop from off1 in radix1
NumericFrom(ctx, sym, off1, radix1) ==
    AfterDigits(ctx, sym, off1, radix1, Digits(ctx, radix1, off1, Int64Zero))

\* a numeric literal starts at the offset (ch0) with nch after it: the probe of a
\* leading 0 settles the offset and the radix the digit loop starts with
Numeric(ctx, sym, ch0, nch) ==
    LET zero == ch0 = "0"
        hex == zero /\ (nch = "x" \/ nch = "X")
    IN NumericFrom(ctx, sym,
                   IF hex THEN ctx.offset + 2 ELSE IF zero THEN ctx.offset + 1 ELSE ctx.offset,
                   IF hex THEN 16 ELSE IF zero /\ IsDigit(nch) THEN 8 ELSE 10)

----------------------------------------------------------------------------
(* gesLex.lex: string literals, regex literals and operators *)

\* []byte(string(wch)): the UTF-8 encoding of the rune wch (below 2^16)
Utf8(wch) ==
    IF wch < 128 THEN <<wch>>
    ELSE IF wch < 2048 THEN <<192 + (wch \div 64), 128 + (wch % 64)>>
    ELSE IF wch >= 55296 /\ wch <= 57343 THEN <<239, 191, 189>>
    ELSE <<224 + (wch \div 4096), 128 + ((wch \div 64) % 64), 128 + (wch % 64)>>

\* what the escape switch hands back: the rune, where eso is, the line count, the error
Escaped(wch, eso, ln) == [wch |-> wch, eso |-> eso, lineNumber |-> ln, err |-> "nil"]

BadEscape(eso, ln, errstr) == [wch |-> 32, eso |-> eso, lineNumber |-> ln, err |-> errstr]

\* the default case of the switch: up to three octal digits, the first one ch
OctalEscape(ctx, eso, ln, ch, c2, c3) ==
    IF ~IsOctal(ch) THEN BadEscape(eso, ln, "Invalid escape character sequence")
    ELSE IF ~IsOctal(c2) THEN Escaped(DigitValue(ch), eso, ln)
    ELSE IF ~IsOctal(c3) THEN Escaped(DigitValue(ch) * 8 + DigitValue(c2), eso + 1, ln)
    ELSE Escaped((DigitValue(ch) * 8 + DigitValue(c2)) * 8 + DigitValue(c3), eso + 2, ln)

\* the cases x and u of the switch: n hex digits after eso
HexEscape(ctx, eso, ln, n, errstr) ==
    IF \E i \in 1..n : ~isHex(Rd(ctx, eso + i)) THEN BadEscape(eso, ln, errstr)
    ELSE IF n = 2
    THEN Escaped(hexToInt(Rd(ctx, eso + 1)) * 16 + hexToInt(Rd(ctx, eso + 2)), eso + 2, ln)
    ELSE Escaped(hexToInt(Rd(ctx, eso + 1)) * 4096 + hexToInt(Rd(ctx, eso + 2)) * 256
                 + hexToInt(Rd(ctx, eso + 3)) * 16 + hexToInt(Rd(ctx, eso + 4)),
                 eso + 4, ln)

\* a faulty switch that takes the character after the backslash as it is
EscapeAsWritten(ctx, eso, ln, ch) == Escaped(Ord(ch), eso, ln)

\* the switch on the character ch after a backslash, with eso on that character;
\* wch starts as ' '
Escape(ctx, eso, ln, ch) ==
    CASE ch = "b" -> Escaped(Ord("BS"), eso, ln)
      [] ch = "f" -> Escaped(Ord("FF"), eso, ln)
      [] ch = "n" -> Escaped(Ord("LF"), eso, ln)
      [] ch = "t" -> Escaped(Ord("TAB"), eso, ln)
      [] ch = "v" -> Escaped(Ord("VT"), eso, ln)
      [] ch = "\\" -> Escaped(Ord("\\"), eso, ln)
      [] ch = "'" -> Escaped(Ord("'"), eso, ln)
      [] ch = "\"" -> Escaped(Ord("\""), eso, ln)
      [] ch = "CR" ->
           Escaped(Ord(" "), IF Rd(ctx, eso + 1) = "LF" THEN eso + 1 ELSE eso, ln + 1)
      [] ch = "LF" -> Escaped(Ord(" "), eso, ln + 1)
      [] ch = "x" \/ ch = "X" -> HexEscape(ctx, eso, ln, 2, "Invalid hex character sequence")
      [] ch = "u" \/ ch = "U" ->
           HexEscape(ctx, eso, ln, 4, "Invalid Unicode character sequence")
      [] OTHER -> OctalEscape(ctx, eso, ln, ch, Rd(ctx, eso + 1), Rd(ctx, eso + 2))

\* the loop of a string literal opened by qch, with eso on the next character
RECURSIVE StringBody(_, _, _, _, _)
RECURSIVE AfterEscape(_, _, _, _)
StringBody(ctx, qch, eso, str, ln) ==
    IF ~InBuf(ctx, eso)
    THEN [eso |-> eso, str |-> str, lineNumber |-> ln, err |-> "index out of range"]
    ELSE IF Rd(ctx, eso) = qch
    THEN [eso |-> eso + 1, str |-> str, lineNumber |-> ln, err |-> "nil"]
    ELSE IF Rd(ctx, eso) \in {"CR", "LF", "NUL"}
    THEN [eso |-> eso, str |-> str, lineNumber |-> ln, err |-> "Unterminated string literal"]
    ELSE IF Rd(ctx, eso) = "\\"
    THEN AfterEscape(ctx, qch, str, Escape(ctx, eso + 1, ln, Rd(ctx, eso + 1)))
    ELSE StringBody(ctx, qch, eso + 1, Append(str, Ord(Rd(ctx, eso))), ln)

\* a faulty loop that drops the blank which the switch left for an escaped
\* line break
AfterEscapeDiscarding(ctx, qch, str, esc) ==
    IF esc.err # "nil"
    THEN [eso |-> esc.eso, str |-> str, lineNumber |-> esc.lineNumber, err |-> esc.err]
    ELSE StringBody(ctx, qch, esc.eso + 1,
                    IF esc.wch = 32 THEN str ELSE str \o Utf8(esc.wch), esc.lineNumber)

\* the loop after the escape switch settled esc
AfterEscape(ctx, qch, str, esc) ==
    IF esc.err # "nil"
    THEN [eso |-> esc.eso, str |-> str, lineNumber |-> esc.lineNumber, err |-> esc.err]
    ELSE StringBody(ctx, qch, esc.eso + 1, str \o Utf8(esc.wch), esc.lineNumber)

\* the token of the string literal that the loop got
StringLexed(ctx, sym, got) ==
    IF got.err = "index out of range"
    THEN Panicked([ctx EXCEPT !.lineNumber = got.lineNumber], sym, got.err)
    ELSE IF got.err # "nil"
    THEN Failed([ctx EXCEPT !.lineNumber = got.lineNumber], sym, got.err)
    ELSE Lexed("GTOK_LITERAL",
               [ctx EXCEPT !.lineNumber = got.lineNumber, !.offset = got.eso],
               [sym EXCEPT !.parseType = "PARSED_LITERAL", !.literal = StringType(got.str)])

\* a string literal starts at the offset with the quote ch
String(ctx, sym, ch) ==
    StringLexed(ctx, sym, StringBody(ctx, ch, ctx.offset + 1, <<>>, ctx.lineNumber))

\* a faulty regex loop that stops at the first '/', escaped or not
RECURSIVE RegexBodyNoEscape(_, _)
RegexBodyNoEscape(ctx, eso) ==
    IF ~InBuf(ctx, eso) \/ Rd(ctx, eso) \in {"/", "CR", "LF", "NUL"}
    THEN eso
    ELSE RegexBodyNoEscape(ctx, eso + 1)

\* the loop of a regex literal: the index of its closing '/', or where it breaks off
RECURSIVE RegexBody(_, _)
RegexBody(ctx, eso) ==
    IF ~InBuf(ctx, eso) \/ Rd(ctx, eso) \in {"/", "CR", "LF", "NUL"}
    THEN eso
    ELSE IF Rd(ctx, eso) = "\\" /\ Rd(ctx, eso + 1) # "NUL"
    THEN RegexBody(ctx, eso + 2)
    ELSE RegexBody(ctx, eso + 1)

\* the token of the regex literal whose loop stopped at eso
RegexLexed(ctx, sym, eso) ==
    IF ~InBuf(ctx, eso) THEN Panicked(ctx, sym, "index out of range")
    ELSE IF Rd(ctx, eso) # "/" THEN Failed(ctx, sym, "Unterminated regex pattern")
    ELSE Lexed("GTOK_REGEXP", [ctx EXCEPT !.offset = eso + 1],
               [sym EXCEPT !.parseType = "PARSED_REGEXP"])

\* a regex literal starts at the offset
Regex(ctx, sym) ==
    RegexLexed([ctx EXCEPT !.offset = @ + 1], sym, RegexBody(ctx, ctx.offset + 1))

\* what the operator switch settles: the token (none: "0"), how many bytes it
\* takes, the assignOp it sets ("keep": none) and whether it arms the regex flag
Op(tok, len) == [token |-> tok, len |-> len, assignOp |-> "keep", arm |-> FALSE]

AssignOp(base, len) == [token |-> "GTOK_ASSIGNOP", len |-> len, assignOp |-> base, arm |-> FALSE]

RegexOp(tok, len) == [token |-> tok, len |-> len, assignOp |-> "keep", arm |-> TRUE]

\* a faulty reading of an operator that never looks for the '=' after it
SimpleAlone(nch, base) == Op(base, 1)

\* op, op followed by '=' as a compound assignment, or op alone
Simple(nch, base) == IF nch = "=" THEN AssignOp(base, 2) ELSE Op(base, 1)

\* the same with a doubled form first
Doubled(ch, nch, twice, base) == IF nch = ch THEN Op(twice, 2) ELSE Simple(nch, base)

\* the switch on the first byte ch of an operator, with the bytes after it
OperatorSwitch(ch, nch, n2, n3) ==
    CASE ch = "{" -> Op("GTOK_LC", 1)
      [] ch = "}" -> Op("GTOK_RC", 1)
      [] ch = "(" -> Op("GTOK_LP", 1)
      [] ch = ")" -> Op("GTOK_RP", 1)
      [] ch = "[" -> Op("GTOK_LB", 1)
      [] ch = "]" -> Op("GTOK_RB", 1)
      [] ch = "." -> Op("GTOK_DOT", 1)
      [] ch = ";" -> Op("GTOK_SEMI", 1)
      [] ch = "," -> Op("GTOK_COMMA", 1)
      [] ch = "~" -> Op("GTOK_TILDE", 1)
      [] ch = "?" -> Op("GTOK_QMARK", 1)
      [] ch = ":" -> Op("GTOK_COLON", 1)
      [] ch = "<" ->
           IF nch = "=" THEN Op("GTOK_LTEQ", 2)
           ELSE IF nch = "<"
                THEN IF n2 = "=" THEN AssignOp("GTOK_LTLT", 3) ELSE Op("GTOK_LTLT", 2)
           ELSE Op("GTOK_LT", 1)
      [] ch = ">" ->
           IF nch = "=" THEN Op("GTOK_GTEQ", 2)
           ELSE IF nch = ">"
                THEN IF n2 = ">"
                     THEN IF n3 = "=" THEN AssignOp("GTOK_GTGTGT", 4)
                          ELSE Op("GTOK_GTGTGT", 3)
                     ELSE IF n2 = "=" THEN AssignOp("GTOK_GTGT", 3)
                     ELSE Op("GTOK_GTGT", 2)
           ELSE Op("GTOK_GT", 1)
      [] ch = "=" ->
           IF nch = "="
           THEN IF n2 = "=" THEN Op("GTOK_EQEQEQ", 3) ELSE Op("GTOK_EQEQ", 2)
           ELSE IF nch = "~" THEN RegexOp("GTOK_REGEQ", 2)
           ELSE AssignOp("0", 1)
      [] ch = "!" ->
           IF nch = "="
           THEN IF n2 = "=" THEN Op("GTOK_NOTEQEQ", 3) ELSE Op("GTOK_NOTEQ", 2)
           ELSE IF nch = "~" THEN RegexOp("GTOK_REGNOTEQ", 2)
           ELSE Op("GTOK_NOT", 1)
      [] ch = "+" -> Doubled(ch, nch, "GTOK_INCR", "GTOK_ADD")
      [] ch = "-" -> Doubled(ch, nch, "GTOK_DECR", "GTOK_SUB")
      [] ch = "*" -> Simple(nch, "GTOK_MULT")
      [] ch = "/" -> Simple(nch, "GTOK_DIV")
      [] ch = "%" -> Simple(nch, "GTOK_MOD")
      [] ch = "&" -> Doubled(ch, nch, "GTOK_ANDAND", "GTOK_AND")
      [] ch = "|" -> Doubled(ch, nch, "GTOK_OROR", "GTOK_OR")
      [] ch = "^" -> Simple(nch, "GTOK_XOR")
      [] OTHER -> Op("0", 1)

\* the token of what the operator switch got; a byte that starts no token is
\* the error token, with no message
OperatorLexed(ctx, sym, got) ==
    IF got.token = "0"
    THEN Lexed("GTOK_ERROR", ctx, sym)
    ELSE Lexed(got.token,
               [ctx EXCEPT !.offset = @ + got.len,
                           !.regexValid = IF got.arm THEN TRUE ELSE @],
               IF got.assignOp = "keep" THEN sym ELSE [sym EXCEPT !.assignOp = got.assignOp])

\* an operator, or a byte that starts no token, is at the offset
Operator(ctx, sym, ch, nch) ==
    OperatorLexed(ctx, sym,
                  OperatorSwitch(ch, nch, Rd(ctx, ctx.offset + 2), Rd(ctx, ctx.offset + 3)))

----------------------------------------------------------------------------
(* gesLex.lex, gesLex.Lex and gesLex.Error *)

\* the token loop of lex, from the scanner's offset
RECURSIVE Scan(_, _)
RECURSIVE BlockComment(_, _, _)
Scan(ctx, sym) ==
    LET o == ctx.offset
        ch == Rd(ctx, o)
        nch == Rd(ctx, o + 1)
    IN IF ~InBuf(ctx, o) THEN Panicked(ctx, sym, "index out of range")
       ELSE IF ch = "NUL" THEN Lexed(EndOfInput, ctx, sym)
       ELSE IF ~InBuf(ctx, o + 1) THEN Panicked(ctx, sym, "index out of range")
       ELSE IF ch = " " \/ ch = "TAB"
       THEN Scan([ctx EXCEPT !.offset = o + 1], sym)
       ELSE IF ch = "CR" /\ nch = "LF"
       THEN Scan([ctx EXCEPT !.offset = o + 2, !.lineNumber = @ + 1], sym)
       ELSE IF ch = "CR" \/ ch = "LF"
       THEN Scan([ctx EXCEPT !.offset = o + 1, !.lineNumber = @ + 1], sym)
       ELSE IF ch = "/" /\ nch = "/"
       THEN Scan(LineComment(ctx), sym)
       ELSE IF ch = "/" /\ nch = "*"
       THEN BlockComment(ctx, sym, CommentEnd(ctx, o + 2, ctx.lineNumber))
       ELSE IF IsNameStart(ch) THEN Name(ctx, sym)
       ELSE IF IsDigit(ch) \/ (ch = "." /\ IsDigit(nch)) THEN Numeric(ctx, sym, ch, nch)
       ELSE IF ch = "\"" \/ ch = "'" THEN String(ctx, sym, ch)
       ELSE IF ctx.regexValid /\ ch = "/" THEN Regex(ctx, sym)
       ELSE Operator(ctx, sym, ch, nch)

\* the token loop after a block comment whose loop stopped at end
BlockComment(ctx, sym, end) ==
    IF ~InBuf(ctx, end.offset)
    THEN Panicked([ctx EXCEPT !.offset = end.offset, !.lineNumber = end.lineNumber],
                  sym, "index out of range")
    ELSE IF Rd(ctx, end.offset) = "NUL"
    THEN Failed([ctx EXCEPT !.offset = end.offset, !.lineNumber = end.lineNumber],
                sym, "Unterminated multi-line comment")
    ELSE Scan([ctx EXCEPT !.offset = end.offset + 2, !.lineNumber = end.lineNumber], sym)

\* a faulty lex that leaves the parse type of the symbol as the caller handed
\* it in
lexTypeKept(ctx, sym) == Scan(ctx, sym)

lex(ctx, sym) == Scan(ctx, [sym EXCEPT !.parseType = "PARSED_UNDEFINED"])

\* the end of Lex: the regex flag that was set before the token is dropped, and
\* the symbol takes the context
LexReturn(origRegValid, got) ==
    IF got.panic # "none" THEN got
    ELSE [got EXCEPT !.ctx.regexValid = IF origRegValid THEN FALSE ELSE @,
                     !.lval.ctx = "ctx"]

\* the exposed Lex
Lex(ctx, sym) == LexReturn(ctx.regexValid, lex(ctx, sym))

\* the error callback of the yacc driver
Error(ctx, msg) == [ctx EXCEPT !.error = msg]

----------------------------------------------------------------------------
(* The scanner driven alone, one Lex call per step *)

NoToken == [kind |-> "none", panic |-> "none", count |-> 0, from |-> 0, armed |-> FALSE]

IsOrdinary(tok) == tok # EndOfInput /\ tok # "GTOK_ERROR"

\* lex.Lex(&lval), called until it returns end-of-input or the error token
LexCall ==
    /\ main.at = "lexing"
    /\ token.panic = "none"
    /\ token.kind = "none" \/ IsOrdinary(token.kind)
    /\ token.count <= Len(lexer.source)
    /\ \E got \in {Lex(lexer, lval)} :
          /\ lexer' = got.ctx
          /\ lval' = got.lval
          /\ token' = [kind |-> got.token, panic |-> got.panic,
                       count |-> IF got.panic = "none" /\ IsOrdinary(got.token)
                                 THEN token.count + 1 ELSE token.count,
                       from |-> lexer.offset, armed |-> lexer.regexValid]
    /\ UNCHANGED <<body, mem, prc, exec, main>>

----------------------------------------------------------------------------
(* parser.Parse and the yacc driver it runs *)

\* the cell of the literal field of the driver's $$ record
ValLiteral == [k |-> "sym", p |-> 0, i |-> 0]

\* pushOpCode: a new OpCode with the behaviour set, appended to the body
pushOpCode(fn, opFn) == [fn EXCEPT !.Code = Append(@, OpCode(opFn, NilRef))]

\* a faulty pushEvalExpression that leaves the operand of the new OpCode unset
pushEvalExpressionUnset(fn, ddLiteral, expr) ==
    IF expr.parseType = "PARSED_LITERAL" THEN pushOpCode(fn, "PushLiteralValue") ELSE fn

\* dd.pushEvalExpression(expr), with ddLiteral the address of dd.literal
pushEvalExpression(fn, ddLiteral, expr) ==
    IF expr.parseType = "PARSED_LITERAL"
    THEN LET pushed == pushOpCode(fn, "PushLiteralValue") IN
         [pushed EXCEPT !.Code[Len(pushed.Code)].OpData = ddLiteral]
    ELSE fn

\* a faulty parser.Parse that gives the generic text whatever the scanner recorded
ParserParseGeneric(code, lex_) ==
    IF code # 0
    THEN [body |-> "nil", err |-> "Unknown parsing error"]
    ELSE [body |-> "body", err |-> "nil"]

\* what parser.Parse returns once gesParse returned code: (body, err)
ParserParse(code, lex_) ==
    IF code # 0
    THEN IF lex_.error # "nil"
         THEN [body |-> "nil", err |-> lex_.error]
         ELSE [body |-> "nil", err |-> "Unknown parsing error"]
    ELSE [body |-> "body", err |-> "nil"]

\* what the package's Parse returns for what parser.Parse returned: (prg, err)
Parse(parsed) ==
    IF parsed.err # "nil"
    THEN [prg |-> "nil", err |-> parsed.err]
    ELSE [prg |-> "Script", err |-> "nil"]

\* the caller before it calls Parse (entry "Parse", then prg.Run()) or Run
Caller(entry, source) ==
    [at |-> "start", entry |-> entry, source |-> source, drv |-> "stmt", code |-> 0,
     lexical |-> "nil", prg |-> "nil", parseErr |-> "nil", err |-> "nil", ret |-> NilValue]

\* newLexer(source), with its fresh Function under construction
ParseBegin ==
    /\ main.at = "start"
    /\ lexer' = newLexer(main.source)
    /\ body' = [Name |-> "", Code |-> <<>>]
    /\ lval' = ZeroSym
    /\ main' = [main EXCEPT !.at = "parsing"]
    /\ UNCHANGED <<mem, prc, exec, token>>

\* gesParse, one token per step: a program is a list of literal expression
\* statements, each reduced through pushEvalExpression on the $$ record
gesParse ==
    /\ main.at = "parsing"
    /\ \E got \in {Lex(lexer, lval)} :
       /\ lval' = got.lval
       /\ token' = [kind |-> got.token, panic |-> got.panic, count |-> token.count + 1,
                    from |-> lexer.offset, armed |-> lexer.regexValid]
       /\ IF got.panic # "none"
          THEN /\ main' = [main EXCEPT !.at = "crashed", !.err = got.panic]
               /\ lexer' = got.ctx
               /\ UNCHANGED <<body, mem>>
          ELSE IF got.token = EndOfInput
          THEN /\ main' = [main EXCEPT !.at = "reduced", !.code = 0]
               /\ lexer' = got.ctx
               /\ UNCHANGED <<body, mem>>
          ELSE IF got.token = "GTOK_LITERAL" /\ main.drv = "stmt"
          THEN /\ main' = [main EXCEPT !.drv = "expr"]
               /\ lexer' = got.ctx
               /\ mem' = Store(mem, ValLiteral, got.lval.literal)
               /\ body' = pushEvalExpression(body, ValLiteral, got.lval)
          ELSE IF got.token = "GTOK_SEMI" /\ main.drv = "expr"
          THEN /\ main' = [main EXCEPT !.drv = "stmt"]
               /\ lexer' = got.ctx
               /\ UNCHANGED <<body, mem>>
          ELSE IF got.token = "GTOK_ERROR"
          THEN \* the scanner failed: the driver gives up, with or without a report
               \E report \in BOOLEAN :
                  /\ main' = [main EXCEPT !.at = "reduced", !.code = 1,
                                          !.lexical = got.ctx.error]
                  /\ lexer' = IF report THEN Error(got.ctx, "syntax error") ELSE got.ctx
                  /\ UNCHANGED <<body, mem>>
          ELSE /\ main' = [main EXCEPT !.at = "reduced", !.code = 1]
               /\ lexer' = Error(got.ctx, "syntax error")
               /\ UNCHANGED <<body, mem>>
    /\ UNCHANGED <<prc, exec>>

\* parser.Parse returns, and the package's Parse (or Run) takes its result
ParseReturn ==
    /\ main.at = "reduced"
    /\ LET parsed == Parse(ParserParse(main.code, lexer)) IN
       main' = [main EXCEPT !.at = IF parsed.err # "nil" THEN "returned" ELSE "parsed",
                            !.prg = parsed.prg, !.parseErr = parsed.err, !.err = parsed.err]
    /\ UNCHANGED <<body, mem, prc, exec, lexer, lval, token>>

\* Script.Run: a fresh Process for the body
ScriptRun ==
    /\ main.at = "parsed"
    /\ prc' = [p \in {1} |-> NewProcess]
    /\ exec' = [p \in {1} |-> NotStarted]
    /\ main' = [main EXCEPT !.at = "running"]
    /\ UNCHANGED <<body, mem, lexer, lval, token>>

\* Exec returned to Script.Run, and so to the caller
RunReturn ==
    /\ main.at = "running"
    /\ exec[1].at \in {"done", "panic"}
    /\ main' = IF exec[1].at = "panic"
               THEN [main EXCEPT !.at = "crashed", !.err = exec[1].err]
               ELSE [main EXCEPT !.at = "returned", !.ret = exec[1].ret, !.err = exec[1].err]
    /\ UNCHANGED <<body, mem, prc, exec, lexer, lval, token>>

----------------------------------------------------------------------------
(* The values and instruction sequences the engine is run on *)

Operands == {IntegerType(Int64Of(0)), IntegerType(Int64Of(1)), IntegerType(Int64Max),
             IntegerType(Int64Min), IntegerType(Int64MinusOne),
             NumberType(<<"1", ".", "5">>), StringType(<<97>>), UndefinedType}

\* what one instruction is built from: its behaviour and, for a push, its literal
Shape(fn, v) == [fn |-> fn, val |-> v]

Shapes == {Shape("PushLiteralValue", v) : v \in Operands}
          \cup {Shape("AdditionOperation", NilValue), Shape("FailingOperation", NilValue)}

RECURSIVE SeqsUpTo(_, _)
SeqsUpTo(S, n) ==
    IF n = 0 THEN {<<>>}
    ELSE LET shorter == SeqsUpTo(S, n - 1) IN
         shorter \cup {Append(s, x) : s \in {t \in shorter : Len(t) = n - 1}, x \in S}

\* the Function whose instructions have the shapes s, its literals in the heap
FunctionOf(s) ==
    [Name |-> "",
     Code |-> [i \in 1..Len(s) |->
                 OpCode(s[i].fn, IF s[i].fn = "PushLiteralValue" THEN LitRef(i) ELSE NilRef)]]

LiteralsOf(s) ==
    [a \in {LitRef(i) : i \in {j \in 1..Len(s) : s[j].fn = "PushLiteralValue"}} |-> s[a.i].val]

\* no scanner and no parse: the engine is run on a Function built directly
FrontIdle ==
    /\ lexer = newLexer(<<>>)
    /\ lval = ZeroSym
    /\ token = NoToken
    /\ main = [Caller("none", <<>>) EXCEPT !.at = "engine"]

\* a Function of up to MaxCode instructions, and one fresh Process
InitExec ==
    \E s \in SeqsUpTo(Shapes, MaxCode) :
        /\ body = FunctionOf(s)
        /\ mem = LiteralsOf(s)
        /\ prc = [p \in {1} |-> NewProcess]
        /\ exec = [p \in {1} |-> NotStarted]
        /\ FrontIdle

NextExec ==
    \/ \E p \in Procs : ExecBegin(p)
    \/ \E p \in Procs : ExecInstr(p)
    \/ \E p \in Procs : ExecReturn(p)

SpecExec == InitExec /\ [][NextExec]_vars

----------------------------------------------------------------------------
(* Parse and Run on source texts *)

\* the decimal text of the natural number n, as strconv would format it
RECURSIVE DecimalText(_)
DecimalText(n) ==
    IF n < 10 THEN <<DigitChars[n + 1]>>
    ELSE Append(DecimalText(n \div 10), DigitChars[(n % 10) + 1])

\* the largest number whose decimal text InitRun draws
MaxDecimal == 12

\* decimal integer literals with the int64 each one denotes
DecimalCases ==
    {[text |-> DecimalText(n), val |-> Int64Of(n)] : n \in 0..MaxDecimal}
    \cup {[text |-> DecimalText(65535), val |-> <<65535, 0, 0, 0>>],
          [text |-> DecimalText(65536), val |-> <<0, 1, 0, 0>>],
          [text |-> <<"4", "2", "9", "4", "9", "6", "7", "2", "9", "6">>, val |-> <<0, 0, 1, 0>>],
          [text |-> <<"2", "8", "1", "4", "7", "4", "9", "7", "6", "7", "1", "0", "6", "5", "6">>, val |-> <<0, 0, 0, 1>>],
          [text |-> <<"9", "2", "2", "3", "3", "7", "2", "0", "3", "6", "8", "5", "4", "7", "7", "5", "8", "0", "7">>, val |-> Int64Max]}

\* other sources: empty, comments, statement lists, and sources that fail
OtherSources ==
    { <<>>,
      <<" ", "/", "/", " ", "c", "CR", "LF", "/", "*", " ", "d", " ", "*", "/">>,
      <<"1", ";">>,
      <<"1", ";", "2">>,
      <<"1", " ", "2">>,
      <<"a">>,
      <<"#">>,
      <<"'", "a", "b", "c">>,
      <<"9", "2", "2", "3", "3", "7", "2", "0", "3", "6", "8", "5", "4", "7", "7", "5", "8", "0", "8">>,
      <<"1", ";", "'", "b", "\\", "z", "'">>,
      <<"/", "*", " ", "c">>,
      <<"0", "x", "1", "F">>,
      <<"'", "s", "'">>,
      <<"1", ".", "5">>,
      <<".", "5">> }

ParseSources == {c.text : c \in DecimalCases} \cup OtherSources

InitRun ==
    \E entry \in {"Parse", "Run"}, source \in ParseSources :
        /\ main = Caller(entry, source)
        /\ lexer = newLexer(<<>>)
        /\ lval = ZeroSym
        /\ token = NoToken
        /\ body = [Name |-> "", Code |-> <<>>]
        /\ mem = <<>>
        /\ prc = <<>>
        /\ exec = <<>>

Next ==
    \/ ParseBegin
    \/ gesParse
    \/ ParseReturn
    \/ ScriptRun
    \/ \E p \in Procs : ExecBegin(p)
    \/ \E p \in Procs : ExecInstr(p)
    \/ \E p \in Procs : ExecReturn(p)
    \/ RunReturn

Spec == InitRun /\ [][Next]_vars

----------------------------------------------------------------------------
(* The engine on push-only Functions, and on a Function shared by two Processes *)

\* the longest push-only Function drawn by InitPush
MaxPush == 17

InitPush ==
    \E n \in 0..MaxPush, v \in {IntegerType(Int64Of(1)), UndefinedType} :
        LET s == [i \in 1..n |-> Shape("PushLiteralValue", v)] IN
        /\ body = FunctionOf(s)
        /\ mem = LiteralsOf(s)
        /\ prc = [p \in {1} |-> NewProcess]
        /\ exec = [p \in {1} |-> NotStarted]
        /\ FrontIdle

SpecPush == InitPush /\ [][NextExec]_vars

\* the longest Function drawn by InitShared
MaxShared == 3

\* the instructions a shared Function is made of
SharedShapes ==
    {Shape("PushLiteralValue", v) :
        v \in {IntegerType(Int64Of(1)), IntegerType(Int64Max), UndefinedType}}
    \cup {Shape("AdditionOperation", NilValue), Shape("FailingOperation", NilValue)}

\* one Function and two fresh Processes, each to run Exec on it
InitShared ==
    \E s \in SeqsUpTo(SharedShapes, MaxShared) :
        /\ body = FunctionOf(s)
        /\ mem = LiteralsOf(s)
        /\ prc = [p \in {1, 2} |-> NewProcess]
        /\ exec = [p \in {1, 2} |-> NotStarted]
        /\ FrontIdle

SpecShared == InitShared /\ [][NextExec]_vars

----------------------------------------------------------------------------
(* The scanner on source texts *)

\* sources with a lexical failure: before ordinary tokens come ahead of it
LexicalFailures ==
    { [text |-> <<"/", "*", " ", "n", "e", "v", "e", "r", " ", "e", "n", "d", "s">>, before |-> 0],
      [text |-> <<"1", " ", "/", "*", " ", "a", "LF", " ", "*", " ", "b">>, before |-> 1],
      [text |-> <<"9", "2", "2", "3", "3", "7", "2", "0", "3", "6", "8", "5", "4", "7", "7", "5", "8", "0", "8">>, before |-> 0],
      [text |-> <<"9", "9", "9", "9", "9", "9", "9", "9", "9", "9", "9", "9", "9", "9", "9", "9", "9", "9", "9", "9">>, before |-> 0],
      [text |-> <<"9", ".", "9", ".", "e", "1", ".", "2">>, before |-> 0],
      [text |-> <<"1", "e">>, before |-> 0],
      [text |-> <<".", "5", ".", "5">>, before |-> 0],
      [text |-> <<"'", "a", "b", "c">>, before |-> 0],
      [text |-> <<"\"", "a", "b", "LF", "c", "\"">>, before |-> 0],
      [text |-> <<"'", "a", "b", "CR", "c", "'">>, before |-> 0],
      [text |-> <<"'", "\\", "x", "a", "z", "'">>, before |-> 0],
      [text |-> <<"'", "\\", "x", "4", "'">>, before |-> 0],
      [text |-> <<"'", "\\", "u", "0", "0", "0", "z", "'">>, before |-> 0],
      [text |-> <<"'", "\\", "z", "'">>, before |-> 0],
      [text |-> <<"'", "\\", "8", "'">>, before |-> 0],
      [text |-> <<"#">>, before |-> 0],
      [text |-> <<"a", " ", "@">>, before |-> 1],
      [text |-> <<"\\">>, before |-> 0],
      [text |-> <<"HI">>, before |-> 0],
      [text |-> <<"c", "a", "s", "e", " ", "/", "a", "b", "c">>, before |-> 1],
      [text |-> <<"=", "~", " ", "/", "a", "LF", "b", "/">>, before |-> 1],
      [text |-> <<"!", "~", " ", "/", "a", "\\", "CR", "LF", "b", "/">>, before |-> 1],
      [text |-> <<"c", "a", "s", "e", " ", "/", "a", "\\", "LF", "b", "/">>, before |-> 1] }

\* sources that scan to end-of-input
ScannedSources ==
    { <<>>,
      <<" ", " ", "/", "/", " ", "c", "CR", "LF", " ", " ", "/", "*", " ", "d", " ", "*", "/", "LF", "TAB", "/", "*", "LF", " ", "*", " ", "e", "CR", "LF", " ", "*", "/", "CR", "LF", " ", " ", "/", "/", " ", "f">>,
      <<"TAB", "i", "f", "LF", "a", "b", "c", "d", " ", "w", "h", "i", "l", "e">>,
      <<"0", " ", "1", "2", "a", " ", "0", "0", "7", "a", " ", "0", "x", "0", "a", "B", "c", " ", "0", "x", "y", "z", " ", "1", "2", "3">>,
      <<"0", ".", " ", "1", "2", ".", "0", " ", "1", ".", "2", "3", "4", "e", "3">>,
      <<"'", "a", "b", "c", "'", " ", "\"", "d", "e", "f", "\"">>,
      <<"'", "\\", "b", "\\", "f", "\\", "n", "\\", "t", "\\", "v", "\\", "\\", "\\", "'", "\\", "\"", "\\", "CR", "LF", "\\", "LF", "a", "'">>,
      <<"'", "J", "\\", "x", "6", "5", " ", "\\", "X", "7", "7", "\\", "1", "4", "5", "\\", "4", "1", "'">>,
      <<"/", "a", "b", "c", "/", " ", "i", "f", " ", "/", "d", "e", "f", "/">>,
      <<"c", "a", "s", "e", " ", "/", "a", "\\", "/", "b", "/", " ", "1">>,
      <<"c", "a", "s", "e", " ", "=", "~", " ", "/", "a", "/">>,
      <<"!", "~", "c", "a", "s", "e", " ", "c", "a", "s", "e", " ", "/", "a", "/">>,
      <<"<", " ", "<", "=", " ", "<", "<", " ", "<", "<", "=", " ", ">", " ", ">", "=", " ", ">", ">", " ", ">", ">", "=", " ", ">", ">", ">", " ", ">", ">", ">", "=">>,
      <<"=", " ", "=", "=", " ", "=", "=", "=", " ", "=", "~", " ", "!", " ", "!", "=", " ", "!", "=", "=", " ", "!", "~">>,
      <<"+", " ", "+", "+", " ", "+", "=", " ", "-", " ", "-", "-", " ", "-", "=", " ", "*", " ", "*", "=", " ", "/", " ", "/", "=">>,
      <<"%", " ", "%", "=", " ", "&", " ", "&", "&", " ", "&", "=", " ", "|", " ", "|", "|", " ", "|", "=", " ", "^", " ", "^", "=">>,
      <<"{", " ", "}", " ", "(", " ", ")", " ", "[", " ", "]", " ", ".", " ", ";", " ", ",", " ", "~", " ", "?", " ", ":">> }

\* sources with a '/' where a token starts
SlashSources ==
    { <<"/", "a", "\\", "/", "b", "/", " ", "c">>,
      <<"/", "=", "x", "/">>,
      <<"/">>,
      <<"/", "=">>,
      <<"/", "/", "x", "/">>,
      <<"/", "/", "x", "LF", "/", "a", "/">>,
      <<"/", "*", " ", "a", " ", "*", "/">>,
      <<"/", "*", "/", " ", "x">>,
      <<"/", "*", "a", "*", "/", "/", "b", "/">>,
      <<"/", "a", "\\", "LF", "b", "/">>,
      <<"/", "a", "\\", "CR", "LF", "b", "/">>,
      <<"/", "a", "LF", "b", "/">>,
      <<"/", "a", "b">>,
      <<"/", "a", "\\">>,
      <<"/", "\\", "\\", "/", " ", "/">>,
      <<"a", "/", "b", "/">>,
      <<" ", "TAB", "/", "a", "/">> }

\* an operator of the language: its text, its token, and the base operator
\* that a compound assignment carries
OpRow(text, tok, base) == [text |-> text, token |-> tok, assignOp |-> base]

\* the operators and punctuation marks, as TestOperators lists them
Operators ==
    { OpRow(<<"{">>, "GTOK_LC", "none"),
      OpRow(<<"}">>, "GTOK_RC", "none"),
      OpRow(<<"(">>, "GTOK_LP", "none"),
      OpRow(<<")">>, "GTOK_RP", "none"),
      OpRow(<<"[">>, "GTOK_LB", "none"),
      OpRow(<<"]">>, "GTOK_RB", "none"),
      OpRow(<<".">>, "GTOK_DOT", "none"),
      OpRow(<<";">>, "GTOK_SEMI", "none"),
      OpRow(<<",">>, "GTOK_COMMA", "none"),
      OpRow(<<"~">>, "GTOK_TILDE", "none"),
      OpRow(<<"?">>, "GTOK_QMARK", "none"),
      OpRow(<<":">>, "GTOK_COLON", "none"),
      OpRow(<<"<">>, "GTOK_LT", "none"),
      OpRow(<<"<", "=">>, "GTOK_LTEQ", "none"),
      OpRow(<<"<", "<">>, "GTOK_LTLT", "none"),
      OpRow(<<">">>, "GTOK_GT", "none"),
      OpRow(<<">", "=">>, "GTOK_GTEQ", "none"),
      OpRow(<<">", ">">>, "GTOK_GTGT", "none"),
      OpRow(<<">", ">", ">">>, "GTOK_GTGTGT", "none"),
      OpRow(<<"=", "=">>, "GTOK_EQEQ", "none"),
      OpRow(<<"=", "=", "=">>, "GTOK_EQEQEQ", "none"),
      OpRow(<<"=", "~">>, "GTOK_REGEQ", "none"),
      OpRow(<<"!">>, "GTOK_NOT", "none"),
      OpRow(<<"!", "=">>, "GTOK_NOTEQ", "none"),
      OpRow(<<"!", "=", "=">>, "GTOK_NOTEQEQ", "none"),
      OpRow(<<"!", "~">>, "GTOK_REGNOTEQ", "none"),
      OpRow(<<"+">>, "GTOK_ADD", "none"),
      OpRow(<<"+", "+">>, "GTOK_INCR", "none"),
      OpRow(<<"-">>, "GTOK_SUB", "none"),
      OpRow(<<"-", "-">>, "GTOK_DECR", "none"),
      OpRow(<<"*">>, "GTOK_MULT", "none"),
      OpRow(<<"/">>, "GTOK_DIV", "none"),
      OpRow(<<"%">>, "GTOK_MOD", "none"),
      OpRow(<<"&">>, "GTOK_AND", "none"),
      OpRow(<<"&", "&">>, "GTOK_ANDAND", "none"),
      OpRow(<<"|">>, "GTOK_OR", "none"),
      OpRow(<<"|", "|">>, "GTOK_OROR", "none"),
      OpRow(<<"^">>, "GTOK_XOR", "none"),
      OpRow(<<"=">>, "GTOK_ASSIGNOP", "0"),
      OpRow(<<"+", "=">>, "GTOK_ASSIGNOP", "GTOK_ADD"),
      OpRow(<<"-", "=">>, "GTOK_ASSIGNOP", "GTOK_SUB"),
      OpRow(<<"*", "=">>, "GTOK_ASSIGNOP", "GTOK_MULT"),
      OpRow(<<"/", "=">>, "GTOK_ASSIGNOP", "GTOK_DIV"),
      OpRow(<<"%", "=">>, "GTOK_ASSIGNOP", "GTOK_MOD"),
      OpRow(<<"&", "=">>, "GTOK_ASSIGNOP", "GTOK_AND"),
      OpRow(<<"|", "=">>, "GTOK_ASSIGNOP", "GTOK_OR"),
      OpRow(<<"^", "=">>, "GTOK_ASSIGNOP", "GTOK_XOR"),
      OpRow(<<"<", "<", "=">>, "GTOK_ASSIGNOP", "GTOK_LTLT"),
      OpRow(<<">", ">", "=">>, "GTOK_ASSIGNOP", "GTOK_GTGT"),
      OpRow(<<">", ">", ">", "=">>, "GTOK_ASSIGNOP", "GTOK_GTGTGT") }

\* sources made of one operator or of two with nothing between them
OperatorSources ==
    {a.text : a \in Operators} \cup {a.text \o b.text : a, b \in Operators}

\* the texts of ss one after the other
RECURSIVE Flat(_)
Flat(ss) == IF ss = <<>> THEN <<>> ELSE Head(ss) \o Flat(Tail(ss))

\* the most pieces of a drawn source of blanks and comments
MaxBlanks == 3

\* sources of blanks, line breaks and comments: up to MaxBlanks pieces, with
\* or without a line comment that the end of the input closes
BlankSources ==
    {Flat(ps) \o t :
        ps \in UNION {[1..k ->
                         { <<" ">>, <<"TAB">>, <<"LF">>, <<"CR">>,
                           <<"/", "/", "c", "CR", "LF">>,
                           <<"/", "/", "*", "LF">>,
                           <<"/", "*", "c", "*", "/">>,
                           <<"/", "*", "LF", "/", "/", "CR", "LF", "*", "CR", "*", "/">> }]
                      : k \in 0..MaxBlanks},
        t \in {<<>>, <<"/", "/", " ", "f">>}}

LexSources ==
    {f.text : f \in LexicalFailures} \cup ScannedSources \cup SlashSources \cup BlankSources

InitLex ==
    \E source \in LexSources, armed \in BOOLEAN :
        /\ lexer = [newLexer(source) EXCEPT !.regexValid = armed]
        /\ lval = ZeroSym
        /\ token = NoToken
        /\ main = [Caller(IF armed THEN "LexRegex" ELSE "Lex", source) EXCEPT !.at = "lexing"]
        /\ body = [Name |-> "", Code |-> <<>>]
        /\ mem = <<>>
        /\ prc = <<>>
        /\ exec = <<>>

\* a fresh scanner on a source of operators
InitOps ==
    \E source \in OperatorSources :
        /\ lexer = newLexer(source)
        /\ lval = ZeroSym
        /\ token = NoToken
        /\ main = [Caller("Lex", source) EXCEPT !.at = "lexing"]
        /\ body = [Name |-> "", Code |-> <<>>]
        /\ mem = <<>>
        /\ prc = <<>>
        /\ exec = <<>>

\* v is negative as an int64
IsNegative(v) == v[4] >= 32768

\* -v modulo 2^64
Int64Neg(v) == Int64Add([i \in Limbs |-> LimbBase - 1 - v[i]], Int64Of(1))

\* the remainder that the division of the limbs 4 down to i of v by 10 leaves
RECURSIVE Rem10(_, _)
Rem10(v, i) == IF i > 4 THEN 0 ELSE (Rem10(v, i + 1) * LimbBase + v[i]) % 10

\* v \div 10, v read as an unsigned number
Quot10(v) == [i \in Limbs |-> (Rem10(v, i + 1) * LimbBase + v[i]) \div 10]

\* the decimal digits of the unsigned number v, none for 0
RECURSIVE Digits10(_)
Digits10(v) ==
    IF v = Int64Zero THEN <<>>
    ELSE Append(Digits10(Quot10(v)), DigitChars[Rem10(v, 1) + 1])

\* the decimal text of the int64 v, as strconv.FormatInt(v, 10) writes it
FormatInt(v) ==
    IF v = Int64Zero THEN <<"0">>
    ELSE IF IsNegative(v) THEN <<"-">> \o Digits10(Int64Neg(v))
    ELSE Digits10(v)

\* int64 values whose decimal texts are scanned: small ones, the limb
\* boundaries, both ends of the range and some negative ones
RoundTripValues ==
    {c.val : c \in DecimalCases}
    \cup {<<65535, 65535, 0, 0>>, <<65535, 65535, 65535, 0>>,
          Int64MinusOne, Int64Neg(Int64Of(MaxDecimal)), Int64Neg(Int64Max), Int64Min}

\* the longest run of digits that is drawn in every combination
MaxRun == 2

\* the texts of 1 to n characters of the set chars
RunsOver(chars, n) == UNION {[1..k -> chars] : k \in 1..n}

\* the character c, n times
Rep(c, n) == [i \in 1..n |-> c]

\* literals with a leading 0: 0x and 0X with hex digits and what may follow
\* them, 0 with octal digits and what may follow them, runs that reach and
\* pass 64 bits, and 0x without a hex digit
RadixSources ==
    {<<"0", x>> \o r \o t : x \in {"x", "X"},
                            r \in RunsOver({"0", "1", "9", "a", "f", "A", "F"}, MaxRun),
                            t \in {<<>>, <<"g">>, <<" ", "1">>, <<"+">>}}
    \cup {<<"0", "x">> \o r :
             r \in {<<"0", "a", "B", "c">>,
                    <<"7">> \o Rep("f", 15), <<"8">> \o Rep("0", 15), Rep("F", 16),
                    <<"1">> \o Rep("0", 16), Rep("0", 17) \o <<"1", "f">>}}
    \cup {<<"0">> \o r \o t : r \in RunsOver({"0", "1", "7"}, MaxRun),
                              t \in {<<>>, <<"8">>, <<"9">>, <<"a">>, <<" ", "1">>, <<".", "5">>}}
    \cup {<<"0">> \o r :
             r \in {Rep("7", 21), <<"1">> \o Rep("0", 21), <<"1">> \o Rep("7", 21),
                    <<"2">> \o Rep("0", 21), <<"1">> \o Rep("0", 22), Rep("0", 22) \o <<"1", "7">>}}
    \cup {<<"0", "8">>, <<"0", "0", "7", "a">>,
          <<"0", "x", "y", "z">>, <<"0", "x">>, <<"0", "X">>, <<"0", "X", "g", "1">>,
          <<"1", " ", "0", "x", "_", "a", " ", "2">>, <<"0", "x", "+", "1">>,
          <<"0", "x", " ", "1">>, <<"0", "X", "$">>, <<"0", "x", "x">>}

\* the most pieces between the quotes of a drawn string literal
MaxPieces == 2

\* string literals: a quote, up to MaxPieces pieces (a byte, a quote of either
\* kind, one of the eight simple escapes, a line break), the same quote, and
\* what may follow
StringSources ==
    {<<q>> \o Flat(ps) \o <<q>> \o t :
        q \in {"'", "\""},
        ps \in UNION {[1..k ->
                         {<<"a">>, <<" ">>, <<"'">>, <<"\"">>, <<"LF">>, <<"CR">>}
                         \cup {<<"\\", e>> : e \in {"b", "f", "n", "t", "v", "\\", "'", "\""}}]
                      : k \in 0..MaxPieces},
        t \in {<<>>, <<"b", "'">>, <<"b", "\"">>}}

\* string literals with escaped line breaks, and with one hex escape or one
\* octal escape of every value
EscapeSources ==
    { <<"'", "\\", "b", "\\", "f", "\\", "n", "\\", "t", "\\", "v", "\\", "\\", "\\", "'",
        "\\", "\"", "\\", "CR", "LF", "\\", "LF", "a", "'">>,
      <<"'", "a", "\\", "LF">>,
      <<"'", "\\", "CR", "LF", "LF", "'">>,
      <<"'", "\\", "1", "2", "3", "4", "'">>,
      <<"'", "\\", "1", "8", "'">>,
      <<"'", "\\", "8", "'">>,
      <<"'", "\\", "x", "4", "'">>,
      <<"'", "\\", "x", "4", "1", "1", "'">>,
      <<"'", "J", "\\", "x", "6", "5", "f", "f", " ", "\\", "X", "7", "7", "u", "\\", "x", "7", "A",
        " ", "h", "\\", "1", "4", "5", "r", "e", "\\", "4", "1", "'">> }
    \cup {<<q>> \o a \o b \o <<q>> :
            q \in {"'", "\""},
            a, b \in {<<>>, <<"a">>, <<"\\", "n">>, <<"\\", "LF">>, <<"\\", "CR">>,
                      <<"\\", "CR", "LF">>}}
    \cup {<<"'", "\\", x, h, l, "'">> :
            x \in {"x", "X"},
            h, l \in First(DigitChars, 10) \cup First(LowerCase, 6) \cup First(UpperCase, 6)}
    \cup {<<"'", "\\">> \o d \o <<"'">> :
            d \in UNION {[1..k -> First(DigitChars, 8)] : k \in 1..3}}

\* sources of literals: decimal integers, literals with a leading 0, string
\* literals, numbers that begin with a point, and numbers with a fraction or
\* an exponent
LiteralSources ==
    {FormatInt(v) : v \in RoundTripValues}
    \cup RadixSources
    \cup StringSources
    \cup EscapeSources
    \cup {<<".", "5">>, <<".", "2", "5", " ", "1">>, <<"1", " ", ".", "5">>, <<"a", ".", "5">>,
          <<"(", ".", "5", ")">>, <<"-", ".", "5">>, <<"+", ".", "2", "5">>,
          <<"1", ".", "5">>, <<"0", ".", "5">>}
    \cup {<<"1", "e", "5">>, <<"1", "e", "-", "5">>, <<"1", "e", "+", "5">>,
          <<"1", ".", "5", "e", "3">>, <<"1", ".", "2", "3", "4", "e", "3", ";">>,
          <<"1", ".", "5", "E", "+", "1", "0">>, <<"2", ".", "5", "e", "-", "3", " ", "x">>,
          <<"1", ".", "5", "-", "2">>, <<"1", ".", "5", "+", "2">>, <<"1", ".", "5", "*", "2">>,
          <<"1", ".", "2", ".", "3">>, <<"1", "2", ".">>, <<"1", "2", ".", "a">>,
          <<"3", "e", "2", "-", "1">>, <<"7", ".", "0", "e", "1", "e", "2">>}

\* a fresh scanner on a source of literals
InitLit ==
    \E source \in LiteralSources :
        /\ lexer = newLexer(source)
        /\ lval = ZeroSym
        /\ token = NoToken
        /\ main = [Caller("Lex", source) EXCEPT !.at = "lexing"]
        /\ body = [Name |-> "", Code |-> <<>>]
        /\ mem = <<>>
        /\ prc = <<>>
        /\ exec = <<>>

\* one more call of Lex on the scanner r by a caller that hands in a zeroed
\* symbol and stops at end-of-input, at the error token and at a panic
Recall(r) ==
    IF r.panic # "none" \/ ~IsOrdinary(r.token) THEN r ELSE Lex(r.ctx, ZeroSym)

\* another scanner made by newLexer on the source, after n calls of that caller
RECURSIVE Rescan(_, _)
Rescan(source, n) ==
    IF n = 0
    THEN [token |-> "none", ctx |-> newLexer(source), lval |-> ZeroSym, panic |-> "none"]
    ELSE Recall(Rescan(source, n - 1))

NextLex == LexCall

SpecLex == InitLex /\ [][NextLex]_vars

SpecOps == InitOps /\ [][NextLex]_vars

SpecLit == InitLit /\ [][NextLex]_vars

----------------------------------------------------------------------------
(* pushEvalExpression called on a symbol record that is used again *)

\* the literals that the symbol record takes
EmitValues ==
    {IntegerType(Int64Of(1)), IntegerType(Int64Of(2)), StringType(<<97>>)}

\* the symbol record with the parse type and the literal of an expression
Reduced(sym, type, v) == [sym EXCEPT !.parseType = type, !.literal = v]

\* no source is scanned: a caller fills the symbol record dd and calls
\* dd.pushEvalExpression(dd) on a fresh Function; emitted keeps the literal of
\* each call that had one
InitEmit ==
    /\ body = [Name |-> "", Code |-> <<>>]
    /\ mem = [a \in {ValLiteral} |-> NilValue]
    /\ prc = [p \in {1} |-> NewProcess]
    /\ exec = [p \in {1} |-> NotStarted]
    /\ lexer = newLexer(<<>>)
    /\ lval = ZeroSym
    /\ token = NoToken
    /\ main = [at |-> "emitting", emitted |-> <<>>]

\* the record takes an expression and pushEvalExpression is called on it,
\* while the Function is not yet run
EmitExpression ==
    /\ exec[1].at = "idle"
    /\ Len(body.Code) < MaxCode
    /\ \E type \in {"PARSED_LITERAL", "PARSED_IDENTIFIER"} :
       \E v \in IF type = "PARSED_LITERAL" THEN EmitValues ELSE {lval.literal} :
          /\ lval' = Reduced(lval, type, v)
          /\ mem' = Store(mem, ValLiteral, v)
          /\ body' = pushEvalExpression(body, ValLiteral, Reduced(lval, type, v))
          /\ main' = [main EXCEPT !.emitted =
                         IF type = "PARSED_LITERAL" THEN Append(@, v) ELSE @]
    /\ UNCHANGED <<prc, exec, lexer, token>>

\* the record is overwritten with another literal, before or while the
\* Function is run
OverwriteRecord ==
    /\ main.emitted # <<>>
    /\ \E v \in EmitValues :
          /\ v # lval.literal
          /\ lval' = Reduced(lval, "PARSED_LITERAL", v)
          /\ mem' = Store(mem, ValLiteral, v)
    /\ UNCHANGED <<body, prc, exec, lexer, token, main>>

NextEmit ==
    \/ EmitExpression
    \/ OverwriteRecord
    \/ ExecBegin(1)
    \/ ExecInstr(1)
    \/ ExecReturn(1)

SpecEmit == InitEmit /\ [][NextEmit]_vars

----------------------------------------------------------------------------
(* What a Function computes, told without the machine: the values on the    *)
(* operand stack after its first n instructions, run by one Process alone   *)

\* a + b modulo 2^64, limb by limb from the least significant one
RECURSIVE Ripple(_, _, _, _)
Ripple(a, b, carry, acc) ==
    IF Len(acc) = 4 THEN acc
    ELSE LET i == Len(acc) + 1
             t == a[i] + b[i] + carry
         IN IF t >= LimbBase
            THEN Ripple(a, b, 1, Append(acc, t - LimbBase))
            ELSE Ripple(a, b, 0, Append(acc, t))

\* the sum of two values: an Integer for two Integers, Undefined otherwise
SumOf(x, y) ==
    IF x.type = "Integer" /\ y.type = "Integer"
    THEN IntegerType(Ripple(x.int, y.int, 0, <<>>))
    ELSE UndefinedType

Went(status, stack) == [status |-> status, stack |-> stack]

RECURSIVE Alone(_)
Alone(n) ==
    IF n = 0 THEN Went("ok", <<>>)
    ELSE LET before == Alone(n - 1)
             op == body.Code[n]
             depth == Len(before.stack)
         IN IF before.status # "ok" THEN before
            ELSE IF op.ExecFn = "PushLiteralValue"
            THEN IF depth >= StackSize THEN Went("panic", before.stack)
                 ELSE Went("ok", Append(before.stack, mem[op.OpData]))
            ELSE IF op.ExecFn = "AdditionOperation"
            THEN IF depth < 2 THEN Went("panic", before.stack)
                 ELSE Went("ok", Append(SubSeq(before.stack, 1, depth - 2),
                                        SumOf(before.stack[depth], before.stack[depth - 1])))
            ELSE Went("failed", before.stack)

\* c is a + b with 64-bit two's-complement wrap-around: some carries k make
\* every limb add up
IsWrappedSum(a, b, c) ==
    \E k \in [0..4 -> {0, 1}] :
        /\ k[0] = 0
        /\ \A i \in Limbs : c[i] < LimbBase /\ a[i] + b[i] + k[i - 1] = c[i] + LimbBase * k[i]

----------------------------------------------------------------------------
(* Parse and Run of a decimal literal *)

\* C1: for a source that is one decimal integer literal n within the int64
\* range, Parse succeeds without a crash and hands out a Script, and the run
\* (by Script.Run after Parse, or by Run) returns Integer n with a nil error.
C1_DecimalLiteralRuns ==
    \A c \in DecimalCases :
        main.source = c.text =>
            /\ main.at # "crashed"
            /\ main.at \in {"parsed", "running", "returned"} =>
                   main.prg = "Script" /\ main.parseErr = "nil"
            /\ main.at = "returned" =>
                   main.err = "nil" /\ main.ret = IntegerType(c.val)

\* Run of the largest int64 literal has returned it
C1_Witness ==
    /\ main.at = "returned" /\ main.entry = "Run"
    /\ \E c \in DecimalCases : main.source = c.text /\ c.val = Int64Max
    /\ main.err = "nil" /\ main.ret = IntegerType(Int64Max)

----------------------------------------------------------------------------
(* Function.Exec and the addition instruction *)

\* Exec of process p is over, by a return or by a run-time panic
Finished(p) == exec[p].at \in {"done", "panic"}

\* C2: when every instruction of the Function succeeds, Exec returns with a nil
\* error, and its value is the top of the operand stack after the last
\* instruction, or Undefined when that stack is empty.
C2_ReturnsStackTop ==
    \A p \in Procs :
        \E all \in {Alone(Len(body.Code))} :
            Finished(p) /\ all.status = "ok" =>
                /\ exec[p].at = "done"
                /\ exec[p].err = "nil"
                /\ exec[p].ret = IF all.stack = <<>> THEN UndefinedType
                                 ELSE all.stack[Len(all.stack)]

\* Exec returned the top of a stack of two different values
C2_Witness ==
    \E p \in Procs :
        /\ exec[p].at = "done" /\ exec[p].err = "nil"
        /\ prc[p].sp = 2
        /\ exec[p].ret = IntegerType(Int64Of(1))
        /\ mem[prc[p].stack[1]] = IntegerType(Int64Max)

\* process p is about to run an addition on a stack of at least two values, and
\* this step is the one that runs it
AddStep(p) ==
    /\ exec[p].at = "loop"
    /\ prc[p].pc >= 0 /\ prc[p].pc < Len(body.Code)
    /\ body.Code[prc[p].pc + 1].ExecFn = "AdditionOperation"
    /\ prc[p].sp >= 2
    /\ <<prc[p], exec[p]>>' # <<prc[p], exec[p]>>

\* what the addition did: two values off, one on, the rest of the stack as it
\* was, no error, and the value pushed is the wrapped sum or Undefined
AddDone(p) ==
    /\ prc'[p].sp = prc[p].sp - 1
    /\ \A i \in 1..(prc[p].sp - 2) : prc'[p].stack[i] = prc[p].stack[i]
    /\ exec'[p].at = "loop" /\ exec'[p].err = "nil"
    /\ prc'[p].pc = prc[p].pc + 1
    /\ \E a \in {mem[prc[p].stack[prc[p].sp]]} :
       \E b \in {mem[prc[p].stack[prc[p].sp - 1]]} :
       \E c \in {mem'[prc'[p].stack[prc[p].sp - 1]]} :
          IF a.type = "Integer" /\ b.type = "Integer"
          THEN c.type = "Integer" /\ IsWrappedSum(a.int, b.int, c.int)
          ELSE c = UndefinedType

\* the Function is push a, push b, add, with Integers a and b
IsSumOfTwo ==
    /\ Len(body.Code) = 3
    /\ body.Code[1].ExecFn = "PushLiteralValue" /\ mem[body.Code[1].OpData].type = "Integer"
    /\ body.Code[2].ExecFn = "PushLiteralValue" /\ mem[body.Code[2].OpData].type = "Integer"
    /\ body.Code[3].ExecFn = "AdditionOperation"

\* C3: an addition run on a stack of at least two values pops two and pushes
\* one, reports no error, and pushes the 64-bit wrapped sum of two Integers
\* and Undefined for any other pair; Exec of push a, push b, add returns the
\* wrapped sum a + b.
C3_AdditionPopsTwoPushesSum ==
    /\ [][\A p \in Procs : AddStep(p) => AddDone(p)]_vars
    /\ [](\A p \in Procs :
            IsSumOfTwo /\ Finished(p) =>
                /\ exec[p].at = "done" /\ exec[p].err = "nil"
                /\ exec[p].ret.type = "Integer"
                /\ IsWrappedSum(mem[body.Code[1].OpData].int, mem[body.Code[2].OpData].int,
                                exec[p].ret.int))

\* Exec returned the sum of the largest int64 and 1, which wrapped to the smallest
C3_Witness ==
    \E p \in Procs :
        /\ IsSumOfTwo
        /\ mem[body.Code[1].OpData] = IntegerType(Int64Max)
        /\ mem[body.Code[2].OpData] = IntegerType(Int64Of(1))
        /\ exec[p].at = "done" /\ exec[p].ret = IntegerType(Int64Min)

\* C4: Exec invokes the instructions in index order from 0, its program counter
\* is the number of instructions that succeeded, and an instruction that
\* returns an error is the last one invoked: Exec has returned that error and
\* no value.
C4_InOrderAndAbortOnError ==
    \A p \in Procs :
        \E inv \in {exec[p].invoked} :
            /\ \A i \in 1..Len(inv) : inv[i] = i - 1
            /\ exec[p].at = "loop" => prc[p].pc = Len(inv)
            /\ exec[p].at = "done" /\ exec[p].err = "nil" => Len(inv) = Len(body.Code)
            /\ \A i \in 1..Len(inv) :
                   body.Code[i].ExecFn = "FailingOperation" =>
                       /\ i = Len(inv)
                       /\ exec[p].at = "done"
                       /\ exec[p].err = "operation failed"
                       /\ exec[p].ret = NilValue

\* the second of three instructions failed, and Exec returned its error
C4_Witness ==
    \E p \in Procs :
        /\ Len(body.Code) = 3
        /\ body.Code[2].ExecFn = "FailingOperation"
        /\ exec[p].invoked = <<0, 1>>
        /\ exec[p].at = "done" /\ exec[p].err = "operation failed"

----------------------------------------------------------------------------
(* The bounds of the operand stack *)

\* the last instruction process p invoked is an addition that found fewer than
\* two values on the stack
Underflowed(p) ==
    /\ exec[p].invoked # <<>>
    /\ \E n \in {Len(exec[p].invoked)} :
       \E before \in {Alone(n - 1)} :
          /\ body.Code[n].ExecFn = "AdditionOperation"
          /\ before.status = "ok"
          /\ Len(before.stack) < 2

\* C5: the stack pointer is never negative, and an addition that finds fewer
\* than two values on the stack makes Exec return an error and no value.
C5_UnderflowIsAnError ==
    \A p \in Procs :
        /\ prc[p].sp >= 0
        /\ Underflowed(p) =>
               exec[p].at = "done" /\ exec[p].err # "nil" /\ exec[p].ret = NilValue

\* an addition on an empty stack: pop took the stack pointer to -1 and Exec
\* ended in the run-time panic of the slice index, with no error returned
C5_Witness ==
    \E p \in Procs :
        /\ Underflowed(p)
        /\ exec[p].invoked = <<0>>
        /\ prc[p].sp = 0 - 1
        /\ exec[p].at = "panic" /\ exec[p].err = "index out of range"

\* C6: the stack pointer is at most the allocated length of the stack, and
\* every push-literal instruction invoked either has its value stored in the
\* stack or has made Exec return an error.
C6_PushStoresOrOverflows ==
    \A p \in Procs :
        /\ prc[p].sp <= Len(prc[p].stack)
        /\ \A i \in 1..Len(exec[p].invoked) :
               body.Code[i].ExecFn = "PushLiteralValue" =>
                   \/ i <= prc[p].sp /\ i <= Len(prc[p].stack)
                                     /\ prc[p].stack[i] = body.Code[i].OpData
                   \/ exec[p].at = "done" /\ exec[p].err # "nil"

\* the seventeenth push found the sixteen slots taken: Exec ended in the
\* run-time panic of the slice index, the stack neither grown nor written
C6_Witness ==
    \E p \in Procs :
        /\ Len(exec[p].invoked) = StackSize + 1
        /\ prc[p].sp = StackSize /\ Len(prc[p].stack) = StackSize
        /\ exec[p].at = "panic" /\ exec[p].err = "index out of range"

----------------------------------------------------------------------------
(* A Function shared by two Processes *)

\* what Exec hands back when one Process runs the Function alone
RunAlone ==
    LET all == Alone(Len(body.Code)) IN
    IF all.status = "ok"
    THEN [at |-> "done", err |-> "nil",
          ret |-> IF all.stack = <<>> THEN UndefinedType ELSE all.stack[Len(all.stack)]]
    ELSE IF all.status = "failed"
    THEN [at |-> "done", err |-> "operation failed", ret |-> NilValue]
    ELSE [at |-> "panic", err |-> "index out of range", ret |-> NilValue]

\* the cells that hold the literal operands of the Function
LiteralCells == {a \in DOMAIN mem : a.k = "lit"}

\* C7: no step of Exec changes the Function (its name, its instructions, the
\* literals they point to), and whichever way the steps of two Processes on
\* the same Function interleave, each Exec ends as it does when run alone.
C7_SharedFunctionUnchanged ==
    /\ [][body' = body /\ \A a \in LiteralCells : mem'[a] = mem[a]]_vars
    /\ [](\A p \in Procs :
            Finished(p) =>
                [at |-> exec[p].at, err |-> exec[p].err, ret |-> exec[p].ret] = RunAlone)

\* both Processes ran push, push, add on the shared Function and each got the sum
C7_Witness ==
    /\ IsSumOfTwo
    /\ \A p \in {1, 2} :
           /\ exec[p].at = "done"
           /\ exec[p].ret = IntegerType(Int64Min)
           /\ prc[p].stack[1] = ValRef(p, 2)

----------------------------------------------------------------------------
(* What Parse returns, and the message of a failed parse *)

\* Parse has returned to its caller
ParseOver == main.at \in {"parsed", "running", "returned"} \/ exec # <<>>

\* C8: Parse returns a Script or an error and never both or neither: the
\* Script with a nil error when the driver returned 0; otherwise no Script and
\* the scanner's message, or "Unknown parsing error" when the scanner has none,
\* and then the caller has that error, no value, and no Process ever ran.
C8_ParseReturnsOneOfTwo ==
    ParseOver =>
        /\ (main.prg = "Script") # (main.parseErr # "nil")
        /\ main.prg \in {"Script", "nil"}
        /\ main.code = 0 => main.prg = "Script" /\ main.parseErr = "nil"
        /\ main.code # 0 =>
               /\ main.prg = "nil"
               /\ main.parseErr = IF lexer.error # "nil" THEN lexer.error
                                  ELSE "Unknown parsing error"
               /\ main.at = "returned" /\ main.err = main.parseErr /\ main.ret = NilValue
               /\ exec = <<>>

\* Run of a source whose second statement has a bad escape returned the
\* scanner's message, and nothing was executed
C8_Witness ==
    /\ main.at = "returned" /\ main.entry = "Run"
    /\ main.code # 0 /\ Len(body.Code) = 1
    /\ lexer.error = "Invalid escape character sequence"
    /\ main.err = "Invalid escape character sequence"
    /\ exec = <<>>

\* C9: when the scanner recorded a lexical error during the parse, the error
\* that Parse returns is that message.
C9_FirstFailureIsKept ==
    ParseOver /\ main.lexical # "nil" => main.parseErr = main.lexical

\* the scanner recorded an unterminated string, the driver then reported a
\* syntax error, and Parse returned the syntax error
C9_Witness ==
    /\ main.at = "returned"
    /\ main.lexical = "Unterminated string literal"
    /\ main.parseErr = "syntax error"

----------------------------------------------------------------------------
(* The error token *)

\* C10: on a fresh scanner, for every source of LexicalFailures, the call
\* that meets the failure returns the error token: no more ordinary tokens
\* are returned than come ahead of the failure, end-of-input is not returned,
\* and the call does not end in a run-time panic.
C10_LexicalFailureGivesErrorToken ==
    \A f \in LexicalFailures :
        main.entry = "Lex" /\ main.source = f.text =>
            /\ token.panic = "none"
            /\ token.kind # EndOfInput
            /\ token.count <= f.before

\* the malformed float .5.5 at the start of the source: the call ended in the
\* run-time panic of the slice, with no token and no message
C10_Witness ==
    /\ main.entry = "Lex"
    /\ main.source = <<".", "5", ".", "5">>
    /\ token.panic = "slice bounds out of range"
    /\ lexer.error = "nil"

----------------------------------------------------------------------------
(* The message of the error token, and the regex flag after a call *)

\* C11: whenever Lex has returned the error token, the scanner's error slot
\* holds a message.
C11_ErrorTokenHasMessage ==
    token.kind = "GTOK_ERROR" => lexer.error # "nil"

\* the byte # starts no token: Lex returned the error token and the error
\* slot is still nil
C11_Witness ==
    /\ main.source = <<"#">>
    /\ token.kind = "GTOK_ERROR" /\ token.panic = "none"
    /\ lexer.error = "nil"

\* the tokens that allow a regex literal next
ReArming == {"GTOK_CASE", "GTOK_REGEQ", "GTOK_REGNOTEQ"}

\* C12: after every call of Lex that returned, the regex flag is set exactly
\* when the token returned is case, =~ or !~, whatever the flag was before.
C12_FlagFollowsLastToken ==
    token.kind # "none" /\ token.panic = "none" =>
        (lexer.regexValid <=> token.kind \in ReArming)

\* on a fresh scanner, =~ came right after case: the flag that case had set is
\* dropped at the end of the call although =~ set it again
C12_Witness ==
    /\ main.entry = "Lex"
    /\ token.kind = "GTOK_REGEQ" /\ token.armed
    /\ ~lexer.regexValid

----------------------------------------------------------------------------
(* A '/' where a token starts: comment, regex literal or division *)

\* the byte at index i of the source buffer, from 0; NUL beyond its end
At(i) == IF i >= 0 /\ i < Len(lexer.source) THEN lexer.source[i + 1] ELSE "NUL"

\* the first index from i on that holds no blank
RECURSIVE PastBlanks(_)
PastBlanks(i) == IF At(i) \in {" ", "TAB"} THEN PastBlanks(i + 1) ELSE i

\* the first index from i on that holds a line break or the NUL
RECURSIVE LineStop(_)
LineStop(i) == IF At(i) \in {"CR", "LF", "NUL"} THEN i ELSE LineStop(i + 1)

\* the first index from i on where a block comment closes, or that holds the NUL
RECURSIVE BlockStop(_)
BlockStop(i) ==
    IF At(i) = "NUL" \/ (At(i) = "*" /\ At(i + 1) = "/") THEN i ELSE BlockStop(i + 1)

\* where a regex literal whose text starts at i stops: at its closing '/', or
\* at a line break or the NUL; a backslash takes the byte after it along, a
\* line break too unless strict
RECURSIVE RegexStop(_, _)
RegexStop(i, strict) ==
    IF At(i) \in {"/", "CR", "LF", "NUL"} THEN i
    ELSE IF At(i) = "\\" /\ At(i + 1) # "NUL"
    THEN IF strict /\ At(i + 1) \in {"CR", "LF"} THEN i + 1 ELSE RegexStop(i + 2, strict)
    ELSE RegexStop(i + 1, strict)

\* Lex has returned a token for a call that found a '/' at index s after blanks
SlashAt(s) ==
    /\ token.kind # "none" /\ token.panic = "none"
    /\ s = PastBlanks(token.from)
    /\ At(s) = "/"

\* the '/' at s started a comment: the scanner went past it
CommentFrom(s) ==
    IF At(s + 1) = "/"
    THEN \E e \in {LineStop(s + 2)} :
            /\ lexer.offset >= e
            /\ token.kind \in {"GTOK_REGEXP", "GTOK_DIV", "GTOK_ASSIGNOP"} => lexer.offset > e
    ELSE \E e \in {BlockStop(s + 2)} :
            IF At(e) = "NUL"
            THEN token.kind = "GTOK_ERROR" /\ lexer.error = "Unterminated multi-line comment"
            ELSE /\ lexer.offset >= e + 2
                 /\ token.kind \in {"GTOK_REGEXP", "GTOK_DIV", "GTOK_ASSIGNOP"} =>
                        lexer.offset > e + 2

\* the '/' at s started a regex literal that stops at c
RegexFrom(s, c) ==
    IF At(c) = "/"
    THEN /\ token.kind = "GTOK_REGEXP"
         /\ lexer.offset = c + 1
         /\ lval.parseType = "PARSED_REGEXP"
    ELSE /\ token.kind = "GTOK_ERROR"
         /\ lexer.error = "Unterminated regex pattern"

\* the '/' at s is the division operator, alone or in /=
DivisionFrom(s) ==
    IF At(s + 1) = "="
    THEN token.kind = "GTOK_ASSIGNOP" /\ lval.assignOp = "GTOK_DIV" /\ lexer.offset = s + 2
    ELSE token.kind = "GTOK_DIV" /\ lexer.offset = s + 1

\* what Lex made of a '/' where a token starts, with the given reading of a
\* line break after a backslash
SlashRule(strict) ==
    \A s \in 0..Len(lexer.source) :
        SlashAt(s) =>
            IF At(s + 1) \in {"/", "*"} THEN CommentFrom(s)
            ELSE IF token.armed THEN RegexFrom(s, RegexStop(s + 1, strict))
            ELSE DivisionFrom(s)

----------------------------------------------------------------------------
(* Operators: the longest one is taken *)

\* the operators whose text is in the source at index s
OperatorsAt(s) ==
    {op \in Operators : \A i \in 1..Len(op.text) : At(s + i - 1) = op.text[i]}

\* Lex returned the operator op for the text at s, as one token
OperatorTaken(s, op) ==
    /\ token.kind = op.token
    /\ lexer.offset = s + Len(op.text)
    /\ op.token = "GTOK_ASSIGNOP" => lval.assignOp = op.assignOp

\* the text at s is read as an operator: it starts no comment, no regex literal
\* and no number
OperatorDue(s) ==
    /\ token.kind # "none" /\ token.panic = "none"
    /\ s = PastBlanks(token.from)
    /\ OperatorsAt(s) # {}
    /\ ~(At(s) = "/" /\ (token.armed \/ At(s + 1) \in {"/", "*"}))
    /\ ~(At(s) = "." /\ IsDigit(At(s + 1)))

\* C14: where an operator starts, Lex returns one token for the longest
\* operator that is a prefix of the rest of the input and stops right after
\* it; a compound assignment is the assignment-operator token with its base
\* operator as payload, and = is that token with payload 0.
C14_LongestOperator ==
    \A s \in 0..Len(lexer.source) :
        OperatorDue(s) =>
            \E best \in OperatorsAt(s) :
                /\ \A op \in OperatorsAt(s) : Len(op.text) <= Len(best.text)
                /\ OperatorTaken(s, best)

\* >>>= followed by = was read as the assignment carrying >>>, four bytes long
C14_Witness ==
    /\ main.source = <<">", ">", ">", "=", "=">>
    /\ token.from = 0
    /\ token.kind = "GTOK_ASSIGNOP" /\ lval.assignOp = "GTOK_GTGTGT"
    /\ lexer.offset = 4

----------------------------------------------------------------------------
(* Decimal integers: formatting, then scanning *)

\* the first call of Lex on the decimal text of v returned the Integer v and
\* took the whole text
ScannedBack(v) ==
    /\ token.panic = "none"
    /\ token.kind = "GTOK_LITERAL"
    /\ lval.literal = IntegerType(v)
    /\ lexer.offset = Len(main.source)

\* the drawn integers, each with its decimal text
RoundTripTexts == [v \in RoundTripValues |-> FormatInt(v)]

\* the first call of Lex on the decimal text of v is over
FirstCallOn(v) ==
    token # NoToken /\ token.from = 0 /\ main.source = RoundTripTexts[v]

\* C15: for every integer from 0 to 2^63 - 1, scanning its decimal text gives
\* one Integer literal whose native value is that integer.
C15_RoundTripNonNegative ==
    \A v \in RoundTripValues :
        ~IsNegative(v) /\ FirstCallOn(v) => ScannedBack(v)

\* C15 as stated: the same for every integer of the signed 64-bit range, the
\* negative ones included.
C15_RoundTripSigned ==
    \A v \in RoundTripValues :
        FirstCallOn(v) => ScannedBack(v)

\* the text of 2^63 - 1 was scanned back to 2^63 - 1
C15_Witness ==
    /\ FirstCallOn(Int64Max)
    /\ Len(main.source) = 19
    /\ ScannedBack(Int64Max)

----------------------------------------------------------------------------
(* Literals with a leading 0 *)

HexChars ==
    << <<"0">>, <<"1">>, <<"2">>, <<"3">>, <<"4">>, <<"5">>, <<"6">>, <<"7">>, <<"8">>, <<"9">>,
       <<"a", "A">>, <<"b", "B">>, <<"c", "C">>, <<"d", "D">>, <<"e", "E">>, <<"f", "F">> >>

\* ch is a digit of the radix (8 or 16)
IsDigitOf(radix, ch) ==
    \E n \in 1..radix : \E i \in 1..Len(HexChars[n]) : HexChars[n][i] = ch

\* the value of the digit ch
DigitIn(ch) ==
    CHOOSE n \in 0..15 : \E i \in 1..Len(HexChars[n + 1]) : HexChars[n + 1][i] = ch

\* where the run of digits of the radix that starts at index i stops
RECURSIVE RunStop(_, _)
RunStop(radix, i) == IF IsDigitOf(radix, At(i)) THEN RunStop(radix, i + 1) ELSE i

\* bit j of the number that the digits of the source from a up to b, of k bits
\* each, denote
RunBit(a, b, k, j) ==
    IF j \div k >= b - a THEN 0
    ELSE (DigitIn(At(b - 1 - (j \div k))) \div (2 ^ (j % k))) % 2

\* bit j of the int64 v, 0 beyond it
Bit64(v, j) == IF j > 63 THEN 0 ELSE (v[(j \div 16) + 1] \div (2 ^ (j % 16))) % 2

\* the int64 v is the number that the digits from a up to b denote
Denotes(v, a, b, k) ==
    /\ ~IsNegative(v)
    /\ \A j \in 0..(k * (b - a) + 63) : Bit64(v, j) = RunBit(a, b, k, j)

\* Lex returned an Integer for the digits from a up to b and stopped at b
RadixLiteral(a, b, k) ==
    /\ token.panic = "none"
    /\ token.kind = "GTOK_LITERAL"
    /\ lval.literal.type = "Integer"
    /\ Denotes(lval.literal.int, a, b, k)
    /\ lexer.offset = b

\* a call of Lex is over that found the text at s
CalledAt(s) == token # NoToken /\ s = PastBlanks(token.from)

\* 0x or 0X and a hex digit are at s
HexAt(s) == At(s) = "0" /\ At(s + 1) \in {"x", "X"} /\ IsDigitOf(16, At(s + 2))

\* C16: 0x or 0X followed by hex digits, however many, gives the Integer that
\* the digits denote in base 16, never an error, and the scanner stops right
\* after the digits.
C16_HexOfAnyLength ==
    \A s \in 0..Len(lexer.source) :
        CalledAt(s) /\ HexAt(s) => RadixLiteral(s + 2, RunStop(16, s + 2), 4)

\* 0x1 with sixteen 0 after it, which is 2^64, was returned as the Integer 0
C16_Witness ==
    /\ main.source = <<"0", "x", "1">> \o Rep("0", 16)
    /\ token.kind = "GTOK_LITERAL" /\ token.from = 0
    /\ lval.literal = IntegerType(Int64Zero)
    /\ lexer.error = "nil"

\* 0 and an octal digit are at s
OctalAt(s) == At(s) = "0" /\ IsDigitOf(8, At(s + 1))

\* C17: 0 followed by octal digits gives the Integer that the digits denote in
\* base 8; the literal ends at the first character that is no octal digit,
\* and the scanner stops there.
C17_OctalValue ==
    \A s \in 0..Len(lexer.source) :
        CalledAt(s) /\ OctalAt(s) => RadixLiteral(s + 1, RunStop(8, s + 1), 3)

\* 01 with twenty-two 0 after it, which is 2^66, was returned as the Integer 0
C17_Witness ==
    /\ main.source = <<"0", "1">> \o Rep("0", 22)
    /\ token.kind = "GTOK_LITERAL" /\ token.from = 0
    /\ lval.literal = IntegerType(Int64Zero)
    /\ lexer.error = "nil"

\* 0x or 0X without a hex digit after it is at s
BareHexAt(s) == At(s) = "0" /\ At(s + 1) \in {"x", "X"} /\ ~IsDigitOf(16, At(s + 2))

\* where the name that starts at index i stops
RECURSIVE NameStop(_)
NameStop(i) ==
    IF IsLetter(At(i)) \/ IsDigit(At(i)) \/ At(i) \in {"$", "_"} THEN NameStop(i + 1) ELSE i

\* Lex returned the Integer 0 for the 0 at s and stopped after it
ZeroTaken(s) ==
    /\ token.panic = "none"
    /\ token.kind = "GTOK_LITERAL"
    /\ lval.literal = IntegerType(Int64Zero)
    /\ lexer.offset = s + 1

\* Lex returned the identifier that starts at s
IdentifierTaken(s) ==
    /\ token.panic = "none"
    /\ token.kind = "GTOK_IDENTIFIER"
    /\ lval.identifier = SubSeq(lexer.source, s + 1, NameStop(s))
    /\ lexer.offset = NameStop(s)

\* C18: 0x or 0X without a hex digit after it gives the Integer 0 with only
\* the 0 consumed, and the call after that gives the identifier that starts
\* at the x.
C18_HexPrefixRolledBack ==
    \A s \in 0..Len(lexer.source) :
        BareHexAt(s) =>
            /\ CalledAt(s) => ZeroTaken(s)
            /\ token # NoToken /\ token.from = s + 1 => IdentifierTaken(s + 1)

\* after the 0 of 0xyz the identifier xyz was returned
C18_Witness ==
    /\ main.source = <<"0", "x", "y", "z">>
    /\ token.from = 1 /\ token.count = 2
    /\ token.kind = "GTOK_IDENTIFIER" /\ lval.identifier = <<"x", "y", "z">>
    /\ lval.literal = IntegerType(Int64Zero)

----------------------------------------------------------------------------
(* Numbers that begin with a point *)

\* a point and a digit are at s
PointAt(s) == At(s) = "." /\ IsDigit(At(s + 1))

\* C19: a point followed by digits, wherever it starts a token, gives one
\* Number literal whose text is the point and the digits, without a failure
\* and without any character from before the point.
C19_PointLiteral ==
    \A s \in 0..Len(lexer.source) :
        CalledAt(s) /\ PointAt(s) =>
            /\ token.panic = "none"
            /\ token.kind = "GTOK_LITERAL"
            /\ lval.literal = NumberType(SubSeq(lexer.source, s + 1, RunStop(10, s + 1)))
            /\ lexer.offset = RunStop(10, s + 1)

\* the first call on .5 ended in a run-time panic
C19_Witness ==
    /\ main.source = <<".", "5">>
    /\ token.from = 0
    /\ token.panic = "slice bounds out of range"

----------------------------------------------------------------------------
(* String literals *)

SimpleEscapes == {"b", "f", "n", "t", "v", "\\", "'", "\""}

\* the index of the first quote q from i on that no backslash escapes, or the
\* length of the buffer when there is none
RECURSIVE QuoteStop(_, _)
QuoteStop(q, i) ==
    IF i >= Len(lexer.source) THEN Len(lexer.source)
    ELSE IF At(i) = q THEN i
    ELSE IF At(i) = "\\" THEN QuoteStop(q, i + 2)
    ELSE QuoteStop(q, i + 1)

\* the bytes that the text from i up to e stands for: a simple escape for its
\* one character, any other byte for itself
RECURSIVE Unescaped(_, _)
Unescaped(i, e) ==
    IF i >= e THEN <<>>
    ELSE IF At(i) = "\\"
    THEN << CASE At(i + 1) = "b" -> 8
              [] At(i + 1) = "f" -> 12
              [] At(i + 1) = "n" -> 10
              [] At(i + 1) = "t" -> 9
              [] At(i + 1) = "v" -> 11
              [] At(i + 1) = "\\" -> 92
              [] At(i + 1) = "'" -> 39
              [] At(i + 1) = "\"" -> 34 >> \o Unescaped(i + 2, e)
    ELSE <<Ord(At(i))>> \o Unescaped(i + 1, e)

\* every backslash from i up to e begins a simple escape
RECURSIVE OnlySimpleEscapes(_, _)
OnlySimpleEscapes(i, e) ==
    IF i >= e THEN TRUE
    ELSE IF At(i) = "\\" THEN At(i + 1) \in SimpleEscapes /\ OnlySimpleEscapes(i + 2, e)
    ELSE OnlySimpleEscapes(i + 1, e)

\* a byte from i up to e that no backslash escapes is CR, LF or NUL
RECURSIVE BareLineBreak(_, _)
BareLineBreak(i, e) ==
    IF i >= e THEN FALSE
    ELSE IF At(i) = "\\" THEN BareLineBreak(i + 2, e)
    ELSE At(i) \in {"CR", "LF", "NUL"} \/ BareLineBreak(i + 1, e)

\* a string literal is at s: a quote, text with simple escapes only, and the
\* same quote at e
StringAt(s, e) ==
    /\ At(s) \in {"'", "\""}
    /\ e = QuoteStop(At(s), s + 1)
    /\ e < Len(lexer.source)
    /\ OnlySimpleEscapes(s + 1, e)

\* Lex returned the String of the text between s and e and stopped after e
StringTaken(s, e) ==
    /\ token.panic = "none"
    /\ token.kind = "GTOK_LITERAL"
    /\ lval.literal = StringType(Unescaped(s + 1, e))
    /\ lexer.offset = e + 1

\* C20: a string literal ends at the first quote of its own kind that no
\* backslash escapes; the other quote and every other unescaped byte except
\* CR, LF and NUL are in the value as they are, and each simple escape is its
\* one character.
C20_StringValue ==
    \A s, e \in 0..Len(lexer.source) :
        CalledAt(s) /\ StringAt(s, e) /\ ~BareLineBreak(s + 1, e) => StringTaken(s, e)

\* C20 as stated: the same with every unescaped byte, line breaks included.
C20_EveryByteCopied ==
    \A s, e \in 0..Len(lexer.source) :
        CalledAt(s) /\ StringAt(s, e) => StringTaken(s, e)

\* the literal "'\n" followed by b" was read up to its second double quote, as
\* a single quote and a line feed
C20_Witness ==
    /\ main.source = <<"\"", "'", "\\", "n", "\"", "b", "\"">>
    /\ token.from = 0
    /\ token.kind = "GTOK_LITERAL"
    /\ lval.literal = StringType(<<39, 10>>)
    /\ lexer.offset = 5

----------------------------------------------------------------------------
(* String literals: escaped line breaks *)

\* the length of the escape or of the plain byte at i
PieceLen(i) ==
    IF At(i) # "\\" THEN 1
    ELSE IF At(i + 1) = "CR" /\ At(i + 2) = "LF" THEN 3
    ELSE 2

\* an escaped line break is at i
BreakEscapeAt(i) == At(i) = "\\" /\ At(i + 1) \in {"CR", "LF"}

\* the text from i up to e is made of plain bytes, simple escapes and escaped
\* line breaks
RECURSIVE Continuable(_, _)
Continuable(i, e) ==
    IF i >= e THEN i = e
    ELSE /\ IF At(i) = "\\" THEN At(i + 1) \in SimpleEscapes \cup {"CR", "LF"}
                            ELSE At(i) \notin {"CR", "LF", "NUL"}
         /\ Continuable(i + PieceLen(i), e)

\* the number of escaped line breaks from i up to e
RECURSIVE BreakEscapes(_, _)
BreakEscapes(i, e) ==
    IF i >= e THEN 0
    ELSE (IF BreakEscapeAt(i) THEN 1 ELSE 0) + BreakEscapes(i + PieceLen(i), e)

\* the bytes that the text from i up to e stands for when each escaped line
\* break stands for the bytes fill
RECURSIVE Decoded(_, _, _)
Decoded(i, e, fill) ==
    IF i >= e THEN <<>>
    ELSE (IF BreakEscapeAt(i) THEN fill ELSE Unescaped(i, i + PieceLen(i)))
         \o Decoded(i + PieceLen(i), e, fill)

\* the first call of Lex met at offset 0 a string literal that ends at e and
\* has an escaped line break
ContinuedLiteral(e) ==
    /\ token # NoToken /\ token.from = 0
    /\ At(0) \in {"'", "\""}
    /\ e = QuoteStop(At(0), 1)
    /\ e < Len(lexer.source)
    /\ Continuable(1, e)
    /\ BreakEscapes(1, e) > 0

\* Lex returned the literal up to e with fill for each escaped line break and
\* counted one line for each
ContinuedAs(e, fill) ==
    /\ token.panic = "none"
    /\ token.kind = "GTOK_LITERAL"
    /\ lval.literal = StringType(Decoded(1, e, fill))
    /\ lexer.lineNumber = 1 + BreakEscapes(1, e)
    /\ lexer.offset = e + 1

\* C21: in a string literal a backslash followed by CR LF, by CR or by LF adds
\* no character to the value and one to the line counter.
C21_LineBreakEscapeAddsNothing ==
    \A e \in 0..Len(lexer.source) : ContinuedLiteral(e) => ContinuedAs(e, <<>>)

\* a backslash and a line feed before a gave a value of two bytes on line 2
C21_Witness ==
    /\ main.source = <<"'", "\\", "LF", "a", "'">>
    /\ token.kind = "GTOK_LITERAL"
    /\ lval.literal = StringType(<<32, 97>>)
    /\ lexer.lineNumber = 2

----------------------------------------------------------------------------
(* String literals: hex and octal escapes *)

\* the number that the digits of the radix from i up to e denote, after acc
RECURSIVE RunValue(_, _, _, _)
RunValue(radix, i, e, acc) ==
    IF i >= e THEN acc ELSE RunValue(radix, i + 1, e, acc * radix + DigitIn(At(i)))

\* the source is a literal of one hex escape: a quote, a backslash, x or X, two
\* hex digits, and the quote at e
HexEscapeLiteral(e) ==
    /\ e = 5 /\ Len(lexer.source) = 7
    /\ At(0) \in {"'", "\""} /\ At(1) = "\\" /\ At(2) \in {"x", "X"}
    /\ IsDigitOf(16, At(3)) /\ IsDigitOf(16, At(4))
    /\ At(5) = At(0)

\* the source is a literal of one octal escape: a quote, a backslash, one to
\* three octal digits, and the quote at e
OctalEscapeLiteral(e) ==
    /\ e \in 3..5 /\ Len(lexer.source) = e + 2
    /\ At(0) \in {"'", "\""} /\ At(1) = "\\"
    /\ \A i \in 2..(e - 1) : IsDigitOf(8, At(i))
    /\ At(e) = At(0)

\* the first call of Lex returned the String of the one byte n
OneByte(n) ==
    /\ token.panic = "none"
    /\ token.kind = "GTOK_LITERAL"
    /\ n \in 0..255
    /\ lval.literal = StringType(<<n>>)

\* C23: in a string literal every hex escape of two digits and every octal
\* escape of one to three digits adds exactly one byte, whose value is the
\* number the digits denote, which is in 0..255.
C23_EscapeIsOneByte ==
    \A e \in 3..5 :
        token # NoToken /\ token.from = 0 =>
            /\ HexEscapeLiteral(e) => OneByte(RunValue(16, 3, e, 0))
            /\ OctalEscapeLiteral(e) => OneByte(RunValue(8, 2, e, 0))

\* the escape x80 gave the two bytes of the UTF-8 encoding of U+0080
C23_Witness ==
    /\ main.source = <<"'", "\\", "x", "8", "0", "'">>
    /\ token.kind = "GTOK_LITERAL"
    /\ lval.literal = StringType(<<194, 128>>)

----------------------------------------------------------------------------
(* Blanks and comments: the line counter *)

\* the text from i on is made of blanks, line breaks, line comments and
\* closed block comments only
RECURSIVE OnlyBlanks(_)
OnlyBlanks(i) ==
    IF i >= Len(lexer.source) - 1 THEN TRUE
    ELSE IF At(i) \in {" ", "TAB", "CR", "LF"} THEN OnlyBlanks(i + 1)
    ELSE IF At(i) = "/" /\ At(i + 1) = "/" THEN OnlyBlanks(LineStop(i + 2))
    ELSE IF At(i) = "/" /\ At(i + 1) = "*"
    THEN At(BlockStop(i + 2)) = "*" /\ OnlyBlanks(BlockStop(i + 2) + 2)
    ELSE FALSE

\* the number of line breaks from i on: every LF, and every CR that no LF
\* follows
RECURSIVE LineBreaks(_)
LineBreaks(i) ==
    IF i >= Len(lexer.source) - 1 THEN 0
    ELSE (IF At(i) = "LF" \/ (At(i) = "CR" /\ At(i + 1) # "LF") THEN 1 ELSE 0)
         + LineBreaks(i + 1)

\* C24: on a source of blanks, line breaks, line comments and closed block
\* comments the first call of Lex returns end-of-input, and the line counter
\* is then 1 plus the number of line breaks, a CR LF pair being one.
C24_LinesOfBlankSource ==
    token # NoToken /\ token.from = 0 /\ OnlyBlanks(0) =>
        /\ token.panic = "none"
        /\ token.kind = EndOfInput
        /\ lexer.lineNumber = 1 + LineBreaks(0)
        /\ lexer.offset = Len(lexer.source) - 1

\* the source of the comment test was passed over, up to line 6
C24_Witness ==
    /\ Len(main.source) = 39 /\ main.source[7] = "CR"
    /\ token.kind = EndOfInput
    /\ lexer.lineNumber = 6
    /\ lexer.offset = 39

----------------------------------------------------------------------------
(* Progress of the scanner *)

\* the call of Lex that is over returned an ordinary token
OrdinaryReturned == token # NoToken /\ token.panic = "none" /\ IsOrdinary(token.kind)

\* C25: every call of Lex returns; a call that returns an ordinary token
\* leaves the offset beyond where the call found it; and no more ordinary
\* tokens are returned than the source has bytes.
C25_EveryCallAdvances ==
    /\ token.panic = "none"
    /\ OrdinaryReturned => lexer.offset > token.from
    /\ token.count <= Len(main.source)

\* the first call on .25 1 did not return: it ended in a run-time panic
\* before any token
C25_Witness ==
    /\ main.source = <<".", "2", "5", " ", "1">>
    /\ token.kind = "none" /\ token.count = 0
    /\ token.panic # "none"

----------------------------------------------------------------------------
(* Two scanners on one source *)

\* the calls of Lex made so far
Calls ==
    IF token = NoToken THEN 0
    ELSE IF token.panic = "none" /\ IsOrdinary(token.kind) THEN token.count
    ELSE token.count + 1

\* what a caller sees of a call: the token, its payload and the line
Seen(tok, panic, sym, ctx) ==
    [kind |-> tok, panic |-> panic, type |-> sym.parseType,
     literal |-> IF sym.parseType = "PARSED_LITERAL" THEN sym.literal ELSE NilValue,
     identifier |-> IF sym.parseType = "PARSED_IDENTIFIER" THEN sym.identifier ELSE <<>>,
     assignOp |-> IF tok = "GTOK_ASSIGNOP" THEN sym.assignOp ELSE "0",
     line |-> ctx.lineNumber]

\* what the other scanner shows after its n-th call
SeenAgain(r) == Seen(r.token, r.panic, r.lval, r.ctx)

----------------------------------------------------------------------------
(* Numbers with a fraction or an exponent *)

\* where the fraction of the number whose integer digits stop at b stops
FractionStop(b) == IF At(b) = "." THEN RunStop(10, b + 1) ELSE b

\* where the digits of an exponent whose mark is at c start
ExponentDigits(c) == IF At(c + 1) \in {"+", "-"} THEN c + 2 ELSE c + 1

\* where the exponent of the number whose fraction stops at c stops: at c when
\* no exponent mark with a digit is there
ExponentStop(c) ==
    IF At(c) \in {"e", "E"} /\ IsDigit(At(ExponentDigits(c)))
    THEN RunStop(10, ExponentDigits(c))
    ELSE c

\* where the floating literal that starts at s stops
FloatStop(s) == ExponentStop(FractionStop(RunStop(10, s)))

\* a decimal literal with a fraction or an exponent is at s
FloatAt(s) ==
    /\ IsDigit(At(s))
    /\ ~(At(s) = "0" /\ (IsDigit(At(s + 1)) \/ At(s + 1) \in {"x", "X"}))
    /\ FloatStop(s) > RunStop(10, s)

\* C27: a decimal literal with a fraction or an exponent is one Number token
\* of the digits, the point, and the exponent with its optional sign; the
\* scanner stops before the first character that cannot continue it.
C27_FloatLiteralExtent ==
    \A s \in 0..Len(lexer.source) :
        CalledAt(s) /\ FloatAt(s) =>
            /\ token.panic = "none"
            /\ token.kind = "GTOK_LITERAL"
            /\ lval.literal = NumberType(SubSeq(lexer.source, s + 1, FloatStop(s)))
            /\ lexer.offset = FloatStop(s)

\* 1e+5 was refused as a float
C27_Witness ==
    /\ main.source = <<"1", "e", "+", "5">>
    /\ token.kind = "GTOK_ERROR" /\ token.from = 0
    /\ lexer.error = "Invalid literal float: invalid syntax"

----------------------------------------------------------------------------
(* The operand of a push-constant instruction *)

\* instruction i pushes a constant whose operand holds the literal that the
\* i-th emission had
OperandKept(i) ==
    /\ body.Code[i].ExecFn = "PushLiteralValue"
    /\ body.Code[i].OpData # NilRef
    /\ mem[body.Code[i].OpData] = main.emitted[i]

\* slot k of the stack, filled by instruction k, holds the literal that the
\* k-th emission had
PushedKept(k) ==
    /\ prc[1].stack[k] # NilRef
    /\ mem[prc[1].stack[k]] = main.emitted[k]

\* C28: pushEvalExpression appends one push-constant instruction for an
\* expression of parse type literal and nothing for another parse type; the
\* operand of the instruction is the literal of the expression when it was
\* emitted and stays so, and executing the instruction pushes that value,
\* whatever the symbol record is overwritten with afterwards.
C28_OperandIsImmutable ==
    /\ Len(body.Code) = Len(main.emitted)
    /\ \A i \in 1..Len(body.Code) : OperandKept(i)
    /\ \A k \in 1..prc[1].sp : PushedKept(k)

\* the instructions emitted for 1 and for 2 were both executed, and both
\* pushed 2
C28_Witness ==
    /\ main.emitted = <<IntegerType(Int64Of(1)), IntegerType(Int64Of(2))>>
    /\ lval.literal = IntegerType(Int64Of(2))
    /\ prc[1].sp = 2
    /\ mem[prc[1].stack[1]] = IntegerType(Int64Of(2))
    /\ mem[prc[1].stack[2]] = IntegerType(Int64Of(2))

----------------------------------------------------------------------------
(* The offset and the buffer *)

\* C29: the offset is always between 0 and the index of the NUL that newLexer
\* appended, no call of Lex leaves it lower than it found it, and no call
\* reads or slices the buffer outside its bounds.
C29_OffsetWithinBuffer ==
    /\ lexer.offset \in 0..(Len(lexer.source) - 1)
    /\ token # NoToken => lexer.offset >= token.from
    /\ token.panic = "none"

\* the call that found the point of a.5 at offset 1 returned the error token
\* with the offset at 0
C29_Witness ==
    /\ main.source = <<"a", ".", "5">>
    /\ token.from = 1
    /\ token.kind = "GTOK_ERROR"
    /\ lexer.offset = 0

====
